---- MODULE Spec2Model ----
(***************************************************************************)
(* Change-impact analysis engine of fastapi_endpoint_detector:             *)
(*   - ChangeMapper.analyze_diff and the three per-file backend checks,    *)
(*   - MypyAnalyzer's symbol tracer (analyze_endpoint / _trace_references),*)
(*   - MypyAnalyzer's analysis cache (analyze_endpoints, _save_cache,      *)
(*     _load_cache).                                                       *)
(* Confidence values and thresholds are in tenths (1.0 = 10).              *)
(***************************************************************************)
EXTENDS Integers, Sequences, FiniteSets, TLC

VARIABLES
    \* ---- ChangeMapper.analyze_diff ----
    registry,        \* EndpointRegistry._endpoints, in registration order
    backend,         \* ChangeMapper.backend
    threshold,       \* analyze_diff's local threshold (line 567), in tenths
    track_transitive,\* config.analysis.track_transitive
    import_map,      \* DependencyGraph._import_map
    endpoint_deps,   \* MypyAnalyzer._endpoint_deps : identifier -> deps
    coverage_data,   \* CoverageAnalyzer._endpoint_coverage : identifier -> covered_files
    python_files,    \* the changed files evaluated so far, in diff order
    all_affected,    \* analyze_diff's all_affected
    seen_endpoints,  \* analyze_diff's seen_endpoints
    report,          \* AnalysisReport.affected_endpoints
    mpc,             \* position in analyze_diff: "idle" | "loop" | "done"
    \* ---- MypyAnalyzer: typed build and one trace ----
    mypy_available,  \* MypyAnalyzer._mypy_available
    calls,           \* the project's function bodies: definition -> call sites
    deps,            \* the EndpointDependencies being built by analyze_endpoint
    visited,         \* the visited set of the running trace
    stack,           \* activation records of _trace_references
    tracing,         \* identifier of the entry point being traced, or NoEndpoint
    descents,        \* fully-qualified names descended into during this trace
    \* ---- MypyAnalyzer.analyze_endpoints and the cache ----
    use_cache,       \* the use_cache argument
    cache_file,      \* content of cache_path on disk
    built,           \* MypyAnalyzer._trees is populated (the typed build ran)
    apc,             \* position in analyze_endpoints
    ai,              \* index of the loop over endpoints (lines 672-674)
    runs,            \* analyzer processes started so far on this project
    \* ---- history of the current run, read by the properties only ----
    file_read,       \* the cache content _load_cache read in this run
    loaded_deps,     \* _endpoint_deps right after _load_cache
    traced,          \* identifiers analyze_endpoint was called for, in order
    last_saved,      \* _endpoint_deps as of the latest _save_cache, any run
    \* ---- ChangeMapper: its lazily created parts and the caches on disk ----
    mypy_analyzer,     \* "none" while ChangeMapper._mypy_analyzer is None, else "ready"
    coverage_analyzer, \* the same for ChangeMapper._coverage_analyzer
    cov_cache_file,    \* content of coverage_cache_path on disk
    cov_traced,        \* identifiers trace_endpoint_handler was called for, in order
    dep_graph,         \* ChangeMapper._dep_graph: "none", "unbuilt" or "built"
    graph_builds,      \* whether DependencyGraph.build succeeds on this project
    phase,             \* "idle", or "analyzing" while an analysis is under way
    analyses,          \* analyses started on this ChangeMapper
    since_clear,       \* analyses started since clear_cache returned, -1 before it
    \* ---- analyze_diff from its first line: inputs, lazy registry, outcome ----
    diff,              \* the changed Python files the diff source names, in order
    diff_ok,           \* whether DiffParser parses the diff source
    extract_ok,        \* whether FastAPIExtractor.extract_endpoints succeeds
    raisers,           \* paths of changed files whose evaluation raises
    registry_init,     \* "none" while ChangeMapper._registry is None, else "ready"
    errors,            \* analyze_diff's errors list
    warnings,          \* analyze_diff's warnings list
    outcomes,          \* what each analyze_diff call gave its caller, in order
    \* ---- a second analyzer process at work on the same cache file ----
    peer_pc,           \* its position in analyze_endpoints
    peer_deps          \* its _endpoint_deps

lifeVars  == <<mypy_analyzer, coverage_analyzer, cov_cache_file, cov_traced,
               dep_graph, graph_builds, phase, analyses, since_clear>>
diffVars  == <<diff, diff_ok, extract_ok, raisers, registry_init, errors, warnings,
               outcomes, peer_pc, peer_deps>>
mapVars   == <<registry, backend, threshold, track_transitive, import_map,
               coverage_data, python_files, all_affected, seen_endpoints,
               report, mpc, lifeVars, diffVars>>
traceVars == <<mypy_available, calls, deps, visited, stack, tracing, descents>>
cacheVars == <<use_cache, cache_file, built, apc, ai, runs,
               file_read, loaded_deps, traced, last_saved>>
vars      == <<mapVars, endpoint_deps, traceVars, cacheVars>>

(***************************************************************************)
(* Bounds of the model.                                                    *)
(***************************************************************************)
MaxDiffFiles == 2   \* changed files in one diff
MaxLine      == 3   \* changed line numbers are 1..MaxLine
MaxRefFiles  == 2   \* files in one drawn referenced_files / covered_files map
MaxCalls     == 2   \* call sites in the handler's body
MaxCalleeCalls == 1 \* call sites in the body of any other function
MaxRuns      == 2   \* analyzer processes run one after the other
MaxCacheEntries == 2 \* entries in a cache file found on disk

(***************************************************************************)
(* Paths.  A path is <<directory, file name>>; the diff and the analyzers  *)
(* name the same file by the same pair.                                    *)
(***************************************************************************)
AppMain == <<"app", "main.py">>
SvcUtil == <<"svc", "util.py">>
LibUtil == <<"lib", "util.py">>
Files   == {AppMain, SvcUtil, LibUtil}

FileName(p) == p[2]

\* The path test shared by references_file, references_lines and
\* get_call_stack: same resolved path, one a suffix of the other, or the
\* same file name.
PathMatch(ref_path, file_path) ==
    \/ ref_path = file_path
    \/ FileName(ref_path) = FileName(file_path)

(***************************************************************************)
(* Ordered dictionaries (Python dict): sequences of [path, val] with       *)
(* distinct paths, in insertion order.                                     *)
(***************************************************************************)
DictKeys(d) == {d[k].path : k \in 1..Len(d)}

DictHas(d, p) == p \in DictKeys(d)

DictGet(d, p) == d[CHOOSE k \in 1..Len(d) : d[k].path = p].val

DictSet(d, p, v) ==
    IF DictHas(d, p)
    THEN [k \in 1..Len(d) |-> IF d[k].path = p THEN [path |-> p, val |-> v] ELSE d[k]]
    ELSE Append(d, [path |-> p, val |-> v])

\* index of the first entry, in dictionary order, whose key matches; 0 if none
FirstMatch(d, file_path) ==
    IF \E k \in 1..Len(d) : PathMatch(d[k].path, file_path)
    THEN CHOOSE k \in 1..Len(d) :
            /\ PathMatch(d[k].path, file_path)
            /\ \A j \in 1..(k - 1) : ~PathMatch(d[j].path, file_path)
    ELSE 0

(***************************************************************************)
(* Entry points.  end_line_number = 0 stands for None.                     *)
(***************************************************************************)
HandlerEstimate == 50

EpA == [identifier |-> "GET /a", name |-> "handler", module |-> <<"app", "main">>,
        file_path |-> AppMain, line_number |-> 2, end_line_number |-> 0]
EpB == [identifier |-> "GET /b", name |-> "other", module |-> <<"svc", "util">>,
        file_path |-> SvcUtil, line_number |-> 1, end_line_number |-> 2]

Registries == {<<EpA, EpB>>, <<EpB, EpA>>}

Identifiers == {"GET /a", "GET /b"}
NoEndpoint  == "none"

\* EndpointRegistry.get_by_file
GetByFile(file_path) == SelectSeq(registry, LAMBDA ep : ep.file_path = file_path)

(***************************************************************************)
(* EndpointDependencies queries.                                           *)
(***************************************************************************)
EmptyDeps == [referenced_files |-> <<>>, referenced_symbols |-> <<>>, call_stacks |-> <<>>]

references_file(d, file_path) == FirstMatch(d.referenced_files, file_path) # 0

references_lines(d, file_path, lines) ==
    LET k == FirstMatch(d.referenced_files, file_path)
    IN  IF k = 0 THEN {} ELSE d.referenced_files[k].val \cap lines

get_call_stack(d, file_path) ==
    LET k == FirstMatch(d.call_stacks, file_path)
    IN  IF k = 0 THEN <<>> ELSE d.call_stacks[k].val

\* EndpointCoverage.covers_file / get_covered_lines: the resolved path
\* first, then the first entry with the same file name
covers_file(cov, file_path) == FirstMatch(cov, file_path) # 0

get_covered_lines(cov, file_path) ==
    IF DictHas(cov, file_path) THEN DictGet(cov, file_path)
    ELSE LET k == FirstMatch(cov, file_path)
         IN  IF k = 0 THEN {} ELSE cov[k].val

(***************************************************************************)
(* The per-file checks of ChangeMapper.  A check returns <<>> for None or  *)
(* a one-element sequence holding the AffectedEndpoint.                    *)
(***************************************************************************)
ContextWindow == 3

ChangedLines(diff_file) == diff_file.added \cup diff_file.removed

ContextLines(changed_lines) ==
    UNION { {n \in (IF l - ContextWindow > 1 THEN l - ContextWindow ELSE 1)..(l + ContextWindow) : TRUE}
            : l \in changed_lines }

Finding(ep, conf, diff_file, call_stack) ==
    <<[endpoint |-> ep.identifier, confidence |-> conf,
       changed_file |-> diff_file.path, call_stack |-> call_stack]>>

HandlerLines(ep) ==
    LET handler_end == IF ep.end_line_number # 0 THEN ep.end_line_number
                       ELSE ep.line_number + HandlerEstimate
    IN  ep.line_number..handler_end

_check_direct_handler_change(ep, diff_file) ==
    IF ChangedLines(diff_file) \cap HandlerLines(ep) # {}
    THEN Finding(ep, "HIGH", diff_file, <<>>)
    ELSE <<>>

_check_mypy_dependency(ep, diff_file) ==
    IF ep.identifier \notin DOMAIN endpoint_deps THEN <<>>
    ELSE LET d == endpoint_deps[ep.identifier]
             changed_lines == ChangedLines(diff_file)
             overlap == references_lines(d, diff_file.path,
                                         changed_lines \cup ContextLines(changed_lines))
         IN  IF ~references_file(d, diff_file.path) THEN <<>>
             ELSE IF overlap # {}
                  THEN Finding(ep, "MEDIUM", diff_file, get_call_stack(d, diff_file.path))
                  ELSE <<>>

_check_coverage_dependency(ep, diff_file) ==
    IF ep.identifier \notin DOMAIN coverage_data THEN <<>>
    ELSE LET cov == coverage_data[ep.identifier]
             changed_lines == ChangedLines(diff_file)
             overlap == get_covered_lines(cov, diff_file.path)
                          \cap (changed_lines \cup ContextLines(changed_lines))
         IN  IF ~covers_file(cov, diff_file.path) THEN <<>>
             ELSE IF overlap # {} THEN Finding(ep, "MEDIUM", diff_file, <<>>)
                  ELSE <<>>

(***************************************************************************)
(* Import graph.  A module is the sequence of its dotted parts.            *)
(***************************************************************************)
Stem(name) == CASE name = "main.py" -> "main"
                [] name = "util.py" -> "util"

file_path_to_module(p) == <<p[1], Stem(p[2])>>

Modules == {file_path_to_module(f) : f \in Files} \cup {<<f[1]>> : f \in Files}

get_modules_imported_by(m) == IF m \in DOMAIN import_map THEN import_map[m] ELSE {}

RECURSIVE UpstreamFrom(_, _)
\* get_upstream_modules' worklist: visited set and the modules still to visit
UpstreamFrom(seen, to_visit) ==
    IF to_visit = {} THEN seen
    ELSE LET current == CHOOSE m \in to_visit : TRUE
         IN  IF current \in seen THEN UpstreamFrom(seen, to_visit \ {current})
             ELSE UpstreamFrom(seen \cup {current},
                               (to_visit \ {current})
                                 \cup (get_modules_imported_by(current) \ (seen \cup {current})))

get_upstream_modules(m) == UpstreamFrom({}, get_modules_imported_by(m))

\* the changed module followed by its parent packages, longest first
ModulesToCheck(changed_module) ==
    [k \in 1..Len(changed_module) |-> SubSeq(changed_module, 1, Len(changed_module) - k + 1)]

\* the check without the test of line 243: upstream modules always count
_check_module_dependency_untracked(ep, changed_module, diff_file) ==
    IF ep.module = <<>> \/ ep.module = changed_module THEN <<>>
    ELSE LET to_check == ModulesToCheck(changed_module)
             direct   == get_modules_imported_by(ep.module)
             upstream == get_upstream_modules(ep.module)
         IN  IF \E k \in 1..Len(to_check) : to_check[k] \in direct
             THEN Finding(ep, "MEDIUM", diff_file, <<>>)
             ELSE IF \E k \in 1..Len(to_check) : to_check[k] \in upstream
                  THEN Finding(ep, "LOW", diff_file, <<>>)
                  ELSE <<>>

\* lines 198-265
_check_module_dependency(ep, changed_module, diff_file) ==
    IF ep.module = <<>> \/ ep.module = changed_module THEN <<>>
    ELSE LET to_check == ModulesToCheck(changed_module)
             direct   == get_modules_imported_by(ep.module)
             upstream == get_upstream_modules(ep.module)
         IN  IF \E k \in 1..Len(to_check) : to_check[k] \in direct
             THEN Finding(ep, "MEDIUM", diff_file, <<>>)
             ELSE IF track_transitive /\ \E k \in 1..Len(to_check) : to_check[k] \in upstream
                  THEN Finding(ep, "LOW", diff_file, <<>>)
                  ELSE <<>>

(***************************************************************************)
(* ChangeMapper._analyze_diff_file                                         *)
(***************************************************************************)
BackendCheck(ep, diff_file) ==
    CASE backend = "coverage" -> _check_coverage_dependency(ep, diff_file)
      [] backend = "mypy"     -> _check_mypy_dependency(ep, diff_file)
      [] OTHER -> _check_module_dependency(ep, file_path_to_module(diff_file.path), diff_file)

RECURSIVE DirectLoop(_, _, _, _)
\* lines 420-426: the entry points declared in the changed file
DirectLoop(file_endpoints, k, affected, diff_file) ==
    IF k > Len(file_endpoints) THEN affected
    ELSE DirectLoop(file_endpoints, k + 1,
                    affected \o _check_direct_handler_change(file_endpoints[k], diff_file),
                    diff_file)

SeenIn(affected) == {affected[k].endpoint : k \in 1..Len(affected)}

RECURSIVE BackendLoop(_, _, _)
\* lines 429-484: every registry entry point not seen yet on this file
BackendLoop(k, affected, diff_file) ==
    IF k > Len(registry) THEN affected
    ELSE IF registry[k].identifier \in SeenIn(affected)
         THEN BackendLoop(k + 1, affected, diff_file)
         ELSE BackendLoop(k + 1, affected \o BackendCheck(registry[k], diff_file), diff_file)

_analyze_diff_file(diff_file) ==
    BackendLoop(1, DirectLoop(GetByFile(diff_file.path), 1, <<>>, diff_file), diff_file)

(***************************************************************************)
(* ChangeMapper.analyze_diff                                               *)
(***************************************************************************)
ConfidenceOrder(c) == CASE c = "HIGH" -> 10 [] c = "MEDIUM" -> 7 [] c = "LOW" -> 3

\* the filter of line 574 with the comparison turned round
FilterBelowThreshold(affected, th) ==
    SelectSeq(affected, LAMBDA ae : ConfidenceOrder(ae.confidence) <= th)

\* lines 574-577
FilterByThreshold(affected, th) ==
    SelectSeq(affected, LAMBDA ae : ConfidenceOrder(ae.confidence) >= th)

\* the merge without the test of line 559: every finding of the file is kept
MergeAffectedNoDedup(acc, file_affected, k) == acc \o file_affected

RECURSIVE MergeAffected(_, _, _)
\* lines 558-561: keep a file's finding unless its entry point was seen
MergeAffected(acc, file_affected, k) ==
    IF k > Len(file_affected) THEN acc
    ELSE IF file_affected[k].endpoint \in SeenIn(acc)
         THEN MergeAffected(acc, file_affected, k + 1)
         ELSE MergeAffected(Append(acc, file_affected[k]), file_affected, k + 1)

\* a changed file with one changed line, added or removed
DiffFiles ==
    {[path |-> p, added |-> {l}, removed |-> {}] : p \in Files, l \in 1..MaxLine}
      \cup {[path |-> p, added |-> {}, removed |-> {l}] : p \in Files, l \in 1..MaxLine}

\* one iteration of the loop at lines 550-563 on the next changed file; a
\* diff names each file once
AnalyzeFile ==
    /\ mpc = "loop"
    /\ Len(python_files) < MaxDiffFiles
    /\ \E df \in DiffFiles :
         /\ \A k \in 1..Len(python_files) : python_files[k].path # df.path
         /\ python_files' = Append(python_files, df)
         /\ all_affected' = MergeAffected(all_affected, _analyze_diff_file(df), 1)
    /\ seen_endpoints' = SeenIn(all_affected')
    /\ UNCHANGED <<diffVars, registry, backend, threshold, track_transitive, import_map,
                   coverage_data, report, mpc, lifeVars, endpoint_deps, traceVars,
                   cacheVars>>

\* confidence_threshold is validated to lie in [0.0, 1.0]
Thresholds == {3, 5, 7, 10}

\* lines 565-593: read the configured threshold, filter, return the report
FilterResults ==
    /\ mpc = "loop"
    /\ \E th \in Thresholds :
         /\ threshold' = th
         /\ report' = FilterByThreshold(all_affected, th)
    /\ mpc' = "done"
    /\ UNCHANGED <<diffVars, registry, backend, track_transitive, import_map,
                   coverage_data, python_files, all_affected, seen_endpoints,
                   lifeVars, endpoint_deps, traceVars, cacheVars>>

(***************************************************************************)
(* The analyzed project as the typed build presents it: the definitions of *)
(* each module in source order (top-level functions and the methods of     *)
(* top-level classes), and the body of each as a list of items.  A         *)
(* fully-qualified name is the sequence of its dotted parts.               *)
(***************************************************************************)
Defs == <<
    [module |-> <<"app", "main">>, cls |-> "",  name |-> "handler", line |-> 2,  end_line |-> 9],
    [module |-> <<"svc", "util">>, cls |-> "",  name |-> "other",   line |-> 1,  end_line |-> 2],
    [module |-> <<"svc", "util">>, cls |-> "A", name |-> "run",     line |-> 10, end_line |-> 14],
    [module |-> <<"svc", "util">>, cls |-> "B", name |-> "run",     line |-> 20, end_line |-> 24],
    [module |-> <<"lib", "util">>, cls |-> "",  name |-> "util",    line |-> 1,  end_line |-> 5] >>

DefIds == 1..Len(Defs)

FullName(d) == d.module \o (IF d.cls = "" THEN <<>> ELSE <<d.cls>>) \o <<d.name>>

\* MypyAnalyzer._module_to_path / _trees
TreeModules == {Defs[i].module : i \in DefIds}

module_to_path(m) == CHOOSE f \in Files : file_path_to_module(f) = m

\* the definitions of a module's tree, in source order
Tree(m) == SelectSeq([i \in DefIds |-> i], LAMBDA i : Defs[i].module = m)

\* the first definition of the tree, in source order, named func_name:
\* <<its id>>, or <<>> for None
_find_func_in_tree(tree, func_name) ==
    IF \E k \in 1..Len(tree) : Defs[tree[k]].name = func_name
    THEN <<tree[CHOOSE k \in 1..Len(tree) :
                  /\ Defs[tree[k]].name = func_name
                  /\ \A j \in 1..(k - 1) : Defs[tree[j]].name # func_name]>>
    ELSE <<>>

\* the longest prefix of fullname that is a module of the project:
\* <<module>>, or <<>> for None
_resolve_fullname_to_file(fullname) ==
    IF \E i \in 1..Len(fullname) : SubSeq(fullname, 1, i) \in TreeModules
    THEN <<SubSeq(fullname, 1,
                  CHOOSE i \in 1..Len(fullname) :
                     /\ SubSeq(fullname, 1, i) \in TreeModules
                     /\ \A j \in (i + 1)..Len(fullname) : SubSeq(fullname, 1, j) \notin TreeModules)>>
    ELSE <<>>

\* callee names a body may use: the project's functions, a class of the
\* project (no function of that name), and a name outside the project
ClassName    == <<"lib", "util", "Config">>
ExternalName == <<"ext", "print">>
CalleeNames  == {FullName(Defs[i]) : i \in DefIds \ {2}} \cup {ClassName, ExternalName}

\* a call expression whose callee resolves to fullname, or a plain name reference
BodyItems == {[kind |-> "call", fullname |-> n] : n \in CalleeNames}
               \cup {[kind |-> "name", fullname |-> ExternalName]}

SeqsUpTo(S, n) == UNION {[1..m -> S] : m \in 0..n}

\* calls of the project's own functions
ProjectCalls == {b \in BodyItems : \E i \in DefIds : b.fullname = FullName(Defs[i])}

\* bodies: the handler of EpA has up to MaxCalls items, EpB's handler is a
\* leaf, every other function has up to MaxCalleeCalls calls of project
\* functions
Programs ==
    {[i \in DefIds |-> IF i = 1 THEN h ELSE IF i = 2 THEN <<>> ELSE c[i]] :
        h \in SeqsUpTo(BodyItems, MaxCalls),
        c \in [3..Len(Defs) -> SeqsUpTo(ProjectCalls, MaxCalleeCalls)]}

ModuleRefStart == 1
ModuleRefEnd   == 20

(***************************************************************************)
(* EndpointDependencies updates.                                           *)
(***************************************************************************)
LinesOf(d, file_path) ==
    IF DictHas(d.referenced_files, file_path) THEN DictGet(d.referenced_files, file_path) ELSE {}

add_reference(d, file_path, line) ==
    [d EXCEPT !.referenced_files = DictSet(@, file_path, LinesOf(d, file_path) \cup {line})]

\* add_symbol_reference without the append of line 81: the lines only
add_symbol_lines(d, file_path, symbol_name, start_line, end_line) ==
    [d EXCEPT !.referenced_files =
                  DictSet(@, file_path, LinesOf(d, file_path) \cup (start_line..end_line))]

\* lines 78-85: the symbol is appended and its lines are added to the file's
add_symbol_reference(d, file_path, symbol_name, start_line, end_line) ==
    [d EXCEPT !.referenced_symbols =
                  Append(@, [file_path |-> file_path, symbol_name |-> symbol_name,
                             start_line |-> start_line, end_line |-> end_line]),
              !.referenced_files =
                  DictSet(@, file_path, LinesOf(d, file_path) \cup (start_line..end_line))]

\* the call stack of the latest call that reaches a file replaces the stored one
ReplaceCallStack(d, file_path, call_stack) ==
    [d EXCEPT !.call_stacks = DictSet(@, file_path, call_stack)]

\* lines 462-463 and 476-477: the first call stack that reaches a file stays
RecordCallStack(d, file_path, call_stack) ==
    IF DictHas(d.call_stacks, file_path) THEN d
    ELSE [d EXCEPT !.call_stacks = Append(@, [path |-> file_path, val |-> call_stack])]

CallFrame(file_path, line, function_name) ==
    [file_path |-> file_path, line_number |-> line, function_name |-> function_name]

EmptyMap == [id \in {} |-> EmptyDeps]

MapSet(m, id, v) == [x \in (DOMAIN m) \cup {id} |-> IF x = id THEN v ELSE m[x]]

(***************************************************************************)
(* MypyAnalyzer.analyze_endpoint and _trace_references                     *)
(***************************************************************************)
\* lines 353-361: the module whose path is the handler's file, <<>> if none
HandlerModule(ep) ==
    IF \E m \in TreeModules : module_to_path(m) = ep.file_path
    THEN CHOOSE m \in TreeModules : module_to_path(m) = ep.file_path
    ELSE <<>>

\* the fallback without its add_symbol_reference call
FallbackDepsBare(ep) == EmptyDeps

\* the handler location as given (lines 363-365 and 374-376)
FallbackDeps(ep) ==
    add_symbol_reference(EmptyDeps, ep.file_path, <<ep.name>>, ep.line_number,
                         IF ep.end_line_number # 0 THEN ep.end_line_number
                         ELSE ep.line_number + HandlerEstimate)

\* a visited set kept from the trace before
KeptVisited(earlier) == earlier

\* line 384: every analyze_endpoint call starts from an empty visited set
NewVisited(earlier) == {}

\* analyze_endpoint up to the first walk step (lines 332-388)
StartTrace(ep) ==
    /\ tracing = NoEndpoint
    /\ traced' = Append(traced, ep.identifier)
    /\ IF ep.file_path = <<>> \/ ~mypy_available
       THEN \* no handler file (lines 340-342) or _ensure_mypy_built raises
            \* (lines 344-347): the empty record is returned, not stored
            UNCHANGED <<endpoint_deps, deps, visited, stack, tracing, descents, built>>
       ELSE /\ built' = TRUE
            /\ LET hm == HandlerModule(ep)
                   found == IF hm = <<>> THEN <<>> ELSE _find_func_in_tree(Tree(hm), ep.name)
               IN  IF found = <<>>
                   THEN /\ endpoint_deps' = MapSet(endpoint_deps, ep.identifier, FallbackDeps(ep))
                        /\ UNCHANGED <<deps, visited, stack, tracing, descents>>
                   ELSE LET d == Defs[found[1]]
                        IN  /\ deps' = add_symbol_reference(EmptyDeps, ep.file_path, <<ep.name>>,
                                                            d.line, d.end_line)
                            /\ visited' = NewVisited(visited)
                            /\ descents' = <<>>
                            /\ stack' = <<[def |-> found[1], k |-> 1,
                                           call_stack |-> <<CallFrame(ep.file_path, d.line, <<ep.name>>)>>]>>
                            /\ tracing' = ep.identifier
                            /\ UNCHANGED endpoint_deps
    /\ UNCHANGED <<mapVars, mypy_available, calls, use_cache, cache_file, runs,
                   file_read, loaded_deps, last_saved>>

\* the tracer without the test of line 421
NeverVisited(fullname) == FALSE

\* line 421: the cycle guard
AlreadyVisited(fullname) == fullname \in visited

\* one item of the body being walked: handle_call_expr with resolve_and_trace
\* (lines 419-515), or a plain name reference (lines 530-532)
TraceCall ==
    /\ tracing # NoEndpoint
    /\ stack # <<>>
    /\ LET top      == stack[Len(stack)]
           d        == Defs[top.def]
           body     == calls[top.def]
       IN  /\ top.k <= Len(body)
           /\ LET item     == body[top.k]
                  fullname == item.fullname
                  cur_file == module_to_path(d.module)
                  deps1    == add_reference(deps, cur_file, d.line + top.k)
                  advanced == [stack EXCEPT ![Len(stack)].k = top.k + 1]
                  res      == _resolve_fullname_to_file(fullname)
              IN  IF item.kind = "name" \/ AlreadyVisited(fullname)
                  THEN /\ deps' = deps1
                       /\ stack' = advanced
                       /\ UNCHANGED <<visited, descents>>
                  ELSE /\ visited' = visited \cup {fullname}
                       /\ IF res = <<>>
                          THEN /\ deps' = deps1
                               /\ stack' = advanced
                               /\ UNCHANGED descents
                          ELSE LET target_path == module_to_path(res[1])
                                   func == _find_func_in_tree(Tree(res[1]), fullname[Len(fullname)])
                               IN  IF func # <<>>
                                   THEN LET t == Defs[func[1]]
                                        IN  /\ deps' = RecordCallStack(
                                                  add_symbol_reference(deps1, target_path, fullname,
                                                                       t.line, t.end_line),
                                                  target_path, top.call_stack)
                                            /\ stack' = Append(advanced,
                                                  [def |-> func[1], k |-> 1,
                                                   call_stack |-> Append(top.call_stack,
                                                       CallFrame(target_path, t.line, fullname))])
                                            /\ descents' = Append(descents, fullname)
                                   ELSE /\ deps' = RecordCallStack(
                                                  add_symbol_reference(deps1, target_path, fullname,
                                                                       ModuleRefStart, ModuleRefEnd),
                                                  target_path, top.call_stack)
                                        /\ stack' = advanced
                                        /\ UNCHANGED descents
    /\ UNCHANGED <<mapVars, endpoint_deps, mypy_available, calls, tracing, cacheVars>>

\* the walk of a body is over: _trace_references returns; when it is the
\* handler's, analyze_endpoint stores the record (lines 390-391)
TraceReturn ==
    /\ tracing # NoEndpoint
    /\ stack # <<>>
    /\ stack[Len(stack)].k > Len(calls[stack[Len(stack)].def])
    /\ stack' = SubSeq(stack, 1, Len(stack) - 1)
    /\ IF Len(stack) = 1
       THEN /\ endpoint_deps' = MapSet(endpoint_deps, tracing, deps)
            /\ tracing' = NoEndpoint
       ELSE UNCHANGED <<endpoint_deps, tracing>>
    /\ UNCHANGED <<mapVars, mypy_available, calls, deps, visited, descents, cacheVars>>

(***************************************************************************)
(* The analysis cache: the JSON file at cache_path.  A file is             *)
(* [exists, parses, entries]; an entry is [id, ok, data], ok = FALSE for   *)
(* an entry that lacks a required key.  In the file a line set is a list.  *)
(***************************************************************************)
RECURSIVE SetToSeq(_)
\* list(lines): the elements of a set in some order
SetToSeq(S) ==
    IF S = {} THEN <<>>
    ELSE LET x == CHOOSE y \in S : TRUE IN <<x>> \o SetToSeq(S \ {x})

SeqToSet(q) == {q[k] : k \in 1..Len(q)}

\* the per-entry record _save_cache writes (lines 686-713)
Serialize(d) ==
    [referenced_files   |-> [k \in 1..Len(d.referenced_files) |->
                                [path |-> d.referenced_files[k].path,
                                 val  |-> SetToSeq(d.referenced_files[k].val)]],
     referenced_symbols |-> d.referenced_symbols,
     call_stacks        |-> d.call_stacks]

\* a load that restores the file names of a record without their lines
DeserializeNoLines(data) ==
    [referenced_files   |-> [k \in 1..Len(data.referenced_files) |->
                                [path |-> data.referenced_files[k].path,
                                 val  |-> {}]],
     referenced_symbols |-> data.referenced_symbols,
     call_stacks        |-> data.call_stacks]

\* the EndpointDependencies _load_cache builds from an entry (lines 729-761)
Deserialize(data) ==
    [referenced_files   |-> [k \in 1..Len(data.referenced_files) |->
                                [path |-> data.referenced_files[k].path,
                                 val  |-> SeqToSet(data.referenced_files[k].val)]],
     referenced_symbols |-> data.referenced_symbols,
     call_stacks        |-> data.call_stacks]

NoFile  == [exists |-> FALSE, parses |-> FALSE, entries |-> <<>>]
Garbage == [exists |-> TRUE,  parses |-> FALSE, entries |-> <<>>]

\* _save_cache: one entry per record of the in-memory map
SavedFile(m) ==
    LET ids == SetToSeq(DOMAIN m)
    IN  [exists |-> TRUE, parses |-> TRUE,
         entries |-> [k \in 1..Len(ids) |->
                         [id |-> ids[k], ok |-> TRUE, data |-> Serialize(m[ids[k]])]]]

RECURSIVE LoadEntries(_, _, _)
\* the loop of _load_cache (lines 728-761): entries are stored one by one,
\* the first malformed entry raises and ends the loop
LoadEntries(entries, k, m) ==
    IF k > Len(entries) THEN m
    ELSE IF ~entries[k].ok THEN m
         ELSE LoadEntries(entries, k + 1, MapSet(m, entries[k].id, Deserialize(entries[k].data)))

_load_cache(file, m) == IF file.parses THEN LoadEntries(file.entries, 1, m) ELSE m

\* analyze_endpoints without the early return of lines 660-661
NoneCached(m) == FALSE

\* lines 656-659
AllCached(m) == \A k \in 1..Len(registry) : registry[k].identifier \in DOMAIN m

\* analyze_endpoints, lines 652-663: load the cache; return when complete
LoadCache ==
    /\ apc = "start"
    /\ IF use_cache /\ cache_file.exists
       THEN /\ endpoint_deps' = _load_cache(cache_file, endpoint_deps)
            /\ file_read' = cache_file
            /\ loaded_deps' = endpoint_deps'
            /\ apc' = IF AllCached(endpoint_deps') THEN "done" ELSE "build"
       ELSE /\ apc' = "build"
            /\ UNCHANGED <<endpoint_deps, file_read, loaded_deps>>
    /\ UNCHANGED <<mapVars, traceVars, use_cache, cache_file, built, ai, runs,
                   traced, last_saved>>

\* lines 665-669: the typed build, once, before the loop
EnsureBuilt ==
    /\ apc = "build"
    /\ built' = (built \/ mypy_available)
    /\ apc' = "loop"
    /\ ai' = 1
    /\ UNCHANGED <<mapVars, endpoint_deps, traceVars, use_cache, cache_file, runs,
                   file_read, loaded_deps, traced, last_saved>>

\* the loop without the test of line 673
AlwaysNeedsTrace(ep) == TRUE

\* line 673
NeedsTrace(ep) == ep.identifier \notin DOMAIN endpoint_deps

\* lines 672-673: an entry point that already has a record is passed over
LoopSkip ==
    /\ apc = "loop"
    /\ tracing = NoEndpoint
    /\ ai <= Len(registry)
    /\ ~NeedsTrace(registry[ai])
    /\ ai' = ai + 1
    /\ UNCHANGED <<mapVars, endpoint_deps, traceVars, use_cache, cache_file, built,
                   apc, runs, file_read, loaded_deps, traced, last_saved>>

\* lines 672-674: an entry point without a record is analyzed
LoopTrace ==
    /\ apc = "loop"
    /\ ai <= Len(registry)
    /\ NeedsTrace(registry[ai])
    /\ StartTrace(registry[ai])
    /\ ai' = ai + 1
    /\ UNCHANGED apc

\* lines 676-680: persist the whole in-memory map and return it
SaveCache ==
    /\ apc = "loop"
    /\ tracing = NoEndpoint
    /\ ai > Len(registry)
    /\ IF use_cache
       THEN /\ cache_file' = SavedFile(endpoint_deps)
            /\ last_saved' = endpoint_deps
       ELSE UNCHANGED <<cache_file, last_saved>>
    /\ apc' = "done"
    /\ UNCHANGED <<mapVars, endpoint_deps, traceVars, use_cache, built, ai, runs,
                   file_read, loaded_deps, traced>>

\* a later run on the same project: a fresh MypyAnalyzer (lines 160-172),
\* the cache file is what the earlier run left
NewRun ==
    /\ apc = "done"
    /\ runs < MaxRuns
    /\ runs' = runs + 1
    /\ endpoint_deps' = EmptyMap
    /\ built' = FALSE
    /\ apc' = "start"
    /\ ai' = 1
    /\ file_read' = NoFile
    /\ loaded_deps' = EmptyMap
    /\ traced' = <<>>
    /\ UNCHANGED <<mapVars, traceVars, use_cache, cache_file, last_saved>>

(***************************************************************************)
(* Drawn inputs.                                                           *)
(***************************************************************************)
\* recorded line sets: one within the context window of every changed line
\* 1..MaxLine, one at distance 3 of line 3, 4 of line 2 and 5 of line 1
NearLines == {1}
FarLines  == {6}

\* ordered maps file -> line set, over distinct files
RefMaps ==
    {r \in SeqsUpTo([path : Files, val : {NearLines, FarLines}], MaxRefFiles) :
        \A j, k \in 1..Len(r) : j # k => r[j].path # r[k].path}

\* a record with the given referenced_files, each line owned by a symbol
DrawnDeps(r) ==
    [referenced_files   |-> r,
     referenced_symbols |-> [k \in 1..Len(r) |->
                                LET l == CHOOSE x \in r[k].val : TRUE
                                IN  [file_path |-> r[k].path, symbol_name |-> <<"f">>,
                                     start_line |-> l, end_line |-> l]],
     call_stacks        |-> <<>>]

DepsOfB == DrawnDeps(<<[path |-> AppMain, val |-> NearLines]>>)

MypyInputs ==
    {MapSet(EmptyMap, "GET /a", DrawnDeps(r)) : r \in RefMaps}
      \cup {MapSet(MapSet(EmptyMap, "GET /a", DrawnDeps(r)), "GET /b", DepsOfB) : r \in RefMaps}

EmptyCov == [id \in {} |-> <<>>]

CoverageInputs == {[id \in {"GET /a"} |-> r] : r \in RefMaps}

NoImports == [m \in {} |-> {}]

ImportGraphs ==
    { NoImports,
      [m \in {<<"app", "main">>, <<"svc", "util">>} |->
          IF m = <<"app", "main">> THEN {<<"svc", "util">>} ELSE {<<"lib", "util">>}],
      [m \in {<<"app", "main">>} |-> {<<"svc">>}],
      [m \in {<<"app", "main">>, <<"lib", "util">>, <<"svc", "util">>} |->
          IF m = <<"app", "main">> THEN {<<"lib", "util">>} ELSE {<<"app", "main">>}],
      [m \in {<<"app", "main">>, <<"svc", "util">>, <<"svc">>, <<"lib">>} |->
          CASE m = <<"app", "main">> -> {<<"svc", "util">>, <<"svc">>}
            [] m = <<"svc", "util">> -> {<<"lib", "util">>}
            [] m = <<"svc">>         -> {<<"lib">>}
            [] m = <<"lib">>         -> {<<"lib", "util">>}] }

TraceIdle ==
    /\ mypy_available = TRUE
    /\ calls = [i \in DefIds |-> <<>>]
    /\ deps = EmptyDeps
    /\ visited = {}
    /\ stack = <<>>
    /\ tracing = NoEndpoint
    /\ descents = <<>>

CacheIdle ==
    /\ use_cache = FALSE
    /\ cache_file = NoFile
    /\ built = FALSE
    /\ apc = "idle"
    /\ ai = 1
    /\ runs = 1
    /\ file_read = NoFile
    /\ loaded_deps = EmptyMap
    /\ traced = <<>>
    /\ last_saved = EmptyMap

NoCovFile == [exists |-> FALSE, data |-> EmptyCov]

\* no analyze_diff call has been made; the registry is populated
DiffIdle ==
    /\ diff = <<>>
    /\ diff_ok = TRUE
    /\ extract_ok = TRUE
    /\ raisers = {}
    /\ registry_init = "ready"
    /\ errors = <<>>
    /\ warnings = <<>>
    /\ outcomes = <<>>
    /\ peer_pc = "none"
    /\ peer_deps = EmptyMap

\* a ChangeMapper just constructed (lines 86-90), no cache on disk
LifeIdle ==
    /\ mypy_analyzer = "none"
    /\ coverage_analyzer = "none"
    /\ cov_cache_file = NoCovFile
    /\ cov_traced = <<>>
    /\ dep_graph = "none"
    /\ graph_builds = TRUE
    /\ phase = "idle"
    /\ analyses = 0
    /\ since_clear = -1
    /\ DiffIdle

MapIdle ==
    /\ LifeIdle
    /\ registry = <<EpA, EpB>>
    /\ backend = "mypy"
    /\ threshold = 0
    /\ track_transitive = TRUE
    /\ import_map = NoImports
    /\ coverage_data = EmptyCov
    /\ python_files = <<>>
    /\ all_affected = <<>>
    /\ seen_endpoints = {}
    /\ report = <<>>
    /\ mpc = "idle"

(***************************************************************************)
(* SpecMap: analyze_diff from the start of its loop over the changed       *)
(* files, the dependency data of the selected backend being in place.      *)
(***************************************************************************)
InitMap ==
    /\ registry \in Registries
    /\ \/ /\ backend = "mypy"
          /\ endpoint_deps \in MypyInputs
          /\ coverage_data = EmptyCov
          /\ import_map = NoImports
          /\ track_transitive = TRUE
       \/ /\ backend = "coverage"
          /\ endpoint_deps = EmptyMap
          /\ coverage_data \in CoverageInputs
          /\ import_map = NoImports
          /\ track_transitive = TRUE
       \/ /\ backend = "import"
          /\ endpoint_deps = EmptyMap
          /\ coverage_data = EmptyCov
          /\ import_map \in ImportGraphs
          /\ track_transitive \in BOOLEAN
    /\ threshold = 0
    /\ python_files = <<>>
    /\ all_affected = <<>>
    /\ seen_endpoints = {}
    /\ report = <<>>
    /\ mpc = "loop"
    /\ LifeIdle
    /\ TraceIdle
    /\ CacheIdle

NextMap == AnalyzeFile \/ FilterResults

SpecMap == InitMap /\ [][NextMap]_vars

(***************************************************************************)
(* SpecTrace: analyze_endpoint on the entry points of the registry, over   *)
(* every drawn project.                                                    *)
(***************************************************************************)
InitTrace ==
    /\ MapIdle
    /\ CacheIdle
    /\ endpoint_deps = EmptyMap
    /\ mypy_available = TRUE
    /\ calls \in Programs
    /\ deps = EmptyDeps
    /\ visited = {}
    /\ stack = <<>>
    /\ tracing = NoEndpoint
    /\ descents = <<>>

\* analyze_endpoint called for an entry point that has no record yet
TraceEndpoint ==
    /\ \E k \in 1..Len(registry) :
         /\ registry[k].identifier \notin DOMAIN endpoint_deps
         /\ StartTrace(registry[k])
    /\ UNCHANGED <<apc, ai>>

NextTrace == TraceEndpoint \/ TraceCall \/ TraceReturn

SpecTrace == InitTrace /\ [][NextTrace]_vars

\* the trace runs on one thread to completion: no step of it waits
SpecTraceFair == SpecTrace /\ WF_vars(TraceCall) /\ WF_vars(TraceReturn)

(***************************************************************************)
(* SpecCache: analyze_endpoints on the registry, run after run, starting   *)
(* from any drawn cache file.                                              *)
(***************************************************************************)
MalformedData == Serialize(EmptyDeps)

StaleData == Serialize(DrawnDeps(<<[path |-> LibUtil, val |-> FarLines]>>))

CacheFiles ==
    {NoFile, Garbage} \cup
    {[exists |-> TRUE, parses |-> TRUE, entries |-> e] :
        e \in {q \in SeqsUpTo({[id |-> i, ok |-> TRUE, data |-> StaleData] : i \in Identifiers}
                                \cup {[id |-> i, ok |-> FALSE, data |-> MalformedData] : i \in Identifiers},
                              MaxCacheEntries) :
                 \A j, k \in 1..Len(q) : j # k => q[j].id # q[k].id}}

CachePrograms ==
    {[i \in DefIds |-> IF i = 1 THEN h ELSE <<>>] : h \in SeqsUpTo(BodyItems, 1)}

InitCache ==
    /\ MapIdle
    /\ endpoint_deps = EmptyMap
    /\ mypy_available = TRUE
    /\ calls \in CachePrograms
    /\ deps = EmptyDeps
    /\ visited = {}
    /\ stack = <<>>
    /\ tracing = NoEndpoint
    /\ descents = <<>>
    /\ use_cache \in BOOLEAN
    /\ cache_file \in CacheFiles
    /\ built = FALSE
    /\ apc = "start"
    /\ ai = 1
    /\ runs = 1
    /\ file_read = NoFile
    /\ loaded_deps = EmptyMap
    /\ traced = <<>>
    /\ last_saved = EmptyMap

NextCache ==
    LoadCache \/ EnsureBuilt \/ LoopSkip \/ LoopTrace \/ TraceCall \/ TraceReturn
      \/ SaveCache \/ NewRun

SpecCache == InitCache /\ [][NextCache]_vars

(***************************************************************************)
(* SpecClear: one ChangeMapper over its life: analyses, each of which      *)
(* brings the analyzer of the selected backend up to date, and clear_cache.*)
(***************************************************************************)
MaxAnalyses == 2

\* the record trace_endpoint_handler stores (coverage_analyzer.py:174-182)
CovTrace(ep) == <<[path |-> ep.file_path, val |-> HandlerLines(ep)]>>

RECURSIVE CovTraceMissing(_, _, _)
\* coverage_analyzer.py:541-543 and change_mapper.py:603-611: the entry
\* points without a record are traced, in registry order
CovTraceMissing(m, k, tr) ==
    IF k > Len(registry) THEN [map |-> m, traced |-> tr]
    ELSE IF registry[k].identifier \in DOMAIN m
         THEN CovTraceMissing(m, k + 1, tr)
         ELSE CovTraceMissing(MapSet(m, registry[k].identifier, CovTrace(registry[k])),
                              k + 1, Append(tr, registry[k].identifier))

\* CoverageAnalyzer._load_cache over a well-formed file
CovLoad(file, m) ==
    [id \in DOMAIN m \cup DOMAIN file.data |->
        IF id \in DOMAIN file.data THEN file.data[id] ELSE m[id]]

\* CoverageAnalyzer.analyze_endpoints (lines 511-549) on a fresh analyzer
CovAnalyzeEndpoints(file) ==
    LET hit    == use_cache /\ file.exists
        loaded == IF hit THEN CovLoad(file, EmptyCov) ELSE EmptyCov
        r      == CovTraceMissing(loaded, 1, <<>>)
    IN  IF hit /\ AllCached(loaded)
        THEN [map |-> loaded, traced |-> <<>>, file |-> file]
        ELSE [map |-> r.map, traced |-> r.traced,
              file |-> IF use_cache THEN [exists |-> TRUE, data |-> r.map] ELSE file]

BeginAnalysis ==
    /\ phase = "idle"
    /\ analyses < MaxAnalyses
    /\ analyses' = analyses + 1
    /\ since_clear' = IF since_clear >= 0 THEN since_clear + 1 ELSE since_clear

\* analyze_diff with the mypy backend, lines 537-539: the mypy_analyzer
\* property creates the analyzer and calls analyze_endpoints on first use
StartMypyAnalysis ==
    /\ backend = "mypy"
    /\ BeginAnalysis
    /\ phase' = "analyzing"
    /\ traced' = <<>>
    /\ IF mypy_analyzer = "none"
       THEN /\ mypy_analyzer' = "ready"
            /\ apc' = "start"
            /\ UNCHANGED ai
       ELSE /\ apc' = "pre"
            /\ ai' = 1
            /\ UNCHANGED mypy_analyzer
    /\ UNCHANGED <<diffVars, registry, backend, threshold, track_transitive, import_map,
                   coverage_data, python_files, all_affected, seen_endpoints,
                   report, mpc, coverage_analyzer, cov_cache_file, cov_traced,
                   dep_graph, graph_builds, endpoint_deps, traceVars, use_cache,
                   cache_file, built, runs, file_read, loaded_deps, last_saved>>

\* analyze_endpoints has returned to the property: _preanalyze_mypy starts
\* its loop (lines 617-629)
PreanalyzeBegin ==
    /\ phase = "analyzing"
    /\ apc = "done"
    /\ apc' = "pre"
    /\ ai' = 1
    /\ UNCHANGED <<mapVars, endpoint_deps, traceVars, use_cache, cache_file, built,
                   runs, file_read, loaded_deps, traced, last_saved>>

\* change_mapper.py:628: an entry point that has a record is passed over
PreSkip ==
    /\ apc = "pre"
    /\ tracing = NoEndpoint
    /\ ai <= Len(registry)
    /\ ~NeedsTrace(registry[ai])
    /\ ai' = ai + 1
    /\ UNCHANGED <<mapVars, endpoint_deps, traceVars, use_cache, cache_file, built,
                   apc, runs, file_read, loaded_deps, traced, last_saved>>

\* change_mapper.py:628-629: an entry point without a record is analyzed
PreTrace ==
    /\ apc = "pre"
    /\ ai <= Len(registry)
    /\ NeedsTrace(registry[ai])
    /\ StartTrace(registry[ai])
    /\ ai' = ai + 1
    /\ UNCHANGED apc

\* the loop of _preanalyze_mypy is over; nothing is written to disk
PreDone ==
    /\ apc = "pre"
    /\ tracing = NoEndpoint
    /\ ai > Len(registry)
    /\ apc' = "idle"
    /\ phase' = "idle"
    /\ UNCHANGED <<diffVars, registry, backend, threshold, track_transitive, import_map,
                   coverage_data, python_files, all_affected, seen_endpoints,
                   report, mpc, mypy_analyzer, coverage_analyzer, cov_cache_file,
                   cov_traced, dep_graph, graph_builds, analyses, since_clear,
                   endpoint_deps, traceVars, use_cache, cache_file, built, ai,
                   runs, file_read, loaded_deps, traced, last_saved>>

\* analyze_diff with the coverage backend, lines 534-536: the
\* coverage_analyzer property (lines 125-141), then _preanalyze_coverage
CoverageAnalysis ==
    /\ backend = "coverage"
    /\ BeginAnalysis
    /\ IF coverage_analyzer = "none"
       THEN LET r == CovAnalyzeEndpoints(cov_cache_file)
            IN  /\ coverage_data' = r.map
                /\ cov_traced' = r.traced
                /\ cov_cache_file' = r.file
       ELSE LET r == CovTraceMissing(coverage_data, 1, <<>>)
            IN  /\ coverage_data' = r.map
                /\ cov_traced' = r.traced
                /\ UNCHANGED cov_cache_file
    /\ coverage_analyzer' = "ready"
    /\ UNCHANGED <<diffVars, registry, backend, threshold, track_transitive, import_map,
                   python_files, all_affected, seen_endpoints, report, mpc,
                   mypy_analyzer, dep_graph, graph_builds, phase,
                   endpoint_deps, traceVars, cacheVars>>

\* analyze_diff with the import backend, lines 540-543: the dep_graph
\* property (lines 111-123) stores the graph object and then builds it
ImportAnalysis ==
    /\ backend = "import"
    /\ BeginAnalysis
    /\ dep_graph' = IF dep_graph = "none"
                    THEN (IF graph_builds THEN "built" ELSE "unbuilt")
                    ELSE dep_graph
    /\ UNCHANGED <<diffVars, registry, backend, threshold, track_transitive, import_map,
                   coverage_data, python_files, all_affected, seen_endpoints,
                   report, mpc, mypy_analyzer, coverage_analyzer, cov_cache_file,
                   cov_traced, graph_builds, phase, endpoint_deps, traceVars,
                   cacheVars>>

\* ChangeMapper.clear_cache (lines 635-664): the analyzer of the selected
\* backend, or a temporary one for the same path, unlinks its cache file
\* and empties its map; the import backend has no branch
ClearCache ==
    /\ phase = "idle"
    /\ since_clear = -1
    /\ since_clear' = 0
    /\ IF backend = "coverage"
       THEN /\ cov_cache_file' = NoCovFile
            /\ coverage_data' = EmptyCov
            /\ UNCHANGED <<cache_file, endpoint_deps>>
       ELSE IF backend = "mypy"
            THEN /\ cache_file' = NoFile
                 /\ endpoint_deps' = EmptyMap
                 /\ UNCHANGED <<cov_cache_file, coverage_data>>
            ELSE UNCHANGED <<cache_file, endpoint_deps, cov_cache_file, coverage_data>>
    /\ UNCHANGED <<diffVars, registry, backend, threshold, track_transitive, import_map,
                   python_files, all_affected, seen_endpoints, report, mpc,
                   mypy_analyzer, coverage_analyzer, cov_traced, dep_graph,
                   graph_builds, phase, analyses, traceVars, use_cache, built,
                   apc, ai, runs, file_read, loaded_deps, traced, last_saved>>

\* coverage cache files an earlier ChangeMapper of the project left
CovCacheFiles ==
    {NoCovFile,
     [exists |-> TRUE, data |-> [id \in {"GET /a"} |-> CovTrace(EpA)]],
     [exists |-> TRUE, data |-> [id \in Identifiers |-> CovTrace(EpA)]]}

InitClear ==
    /\ registry = <<EpA, EpB>>
    /\ backend \in {"import", "coverage", "mypy"}
    /\ threshold = 0
    /\ track_transitive = TRUE
    /\ import_map = NoImports
    /\ coverage_data = EmptyCov
    /\ python_files = <<>>
    /\ all_affected = <<>>
    /\ seen_endpoints = {}
    /\ report = <<>>
    /\ mpc = "idle"
    /\ mypy_analyzer = "none"
    /\ coverage_analyzer = "none"
    /\ cov_cache_file \in CovCacheFiles
    /\ cov_traced = <<>>
    /\ dep_graph = "none"
    /\ graph_builds \in BOOLEAN
    /\ phase = "idle"
    /\ analyses = 0
    /\ since_clear = -1
    /\ DiffIdle
    /\ endpoint_deps = EmptyMap
    /\ mypy_available = TRUE
    /\ calls \in CachePrograms
    /\ deps = EmptyDeps
    /\ visited = {}
    /\ stack = <<>>
    /\ tracing = NoEndpoint
    /\ descents = <<>>
    /\ use_cache \in BOOLEAN
    /\ cache_file \in CacheFiles
    /\ built = FALSE
    /\ apc = "idle"
    /\ ai = 1
    /\ runs = 1
    /\ file_read = NoFile
    /\ loaded_deps = EmptyMap
    /\ traced = <<>>
    /\ last_saved = EmptyMap

NextClear ==
    StartMypyAnalysis \/ LoadCache \/ EnsureBuilt \/ LoopSkip \/ LoopTrace
      \/ TraceCall \/ TraceReturn \/ SaveCache \/ PreanalyzeBegin \/ PreSkip
      \/ PreTrace \/ PreDone \/ CoverageAnalysis \/ ImportAnalysis \/ ClearCache

SpecClear == InitClear /\ [][NextClear]_vars

(***************************************************************************)
(* SpecPipeline: analyze_diff with the mypy backend from the tracing of    *)
(* the entry points to the report, on projects whose handler calls the     *)
(* services A.run and B.run and the utility, the services calling the      *)
(* utility or nothing.                                                     *)
(***************************************************************************)
CallOf(i) == [kind |-> "call", fullname |-> FullName(Defs[i])]

PipelinePrograms ==
    {[i \in DefIds |-> IF i = 1 THEN h ELSE IF i = 3 THEN a ELSE IF i = 4 THEN b ELSE <<>>] :
        h \in SeqsUpTo({CallOf(3), CallOf(4), CallOf(5)}, MaxCalls),
        a \in SeqsUpTo({CallOf(5)}, MaxCalleeCalls),
        b \in SeqsUpTo({CallOf(5)}, MaxCalleeCalls)}

InitPipeline ==
    /\ MapIdle
    /\ CacheIdle
    /\ endpoint_deps = EmptyMap
    /\ mypy_available = TRUE
    /\ calls \in PipelinePrograms
    /\ deps = EmptyDeps
    /\ visited = {}
    /\ stack = <<>>
    /\ tracing = NoEndpoint
    /\ descents = <<>>

\* analyze_diff, lines 545-548: the analyzer holds a record for every entry
\* point (lines 537-539 have returned) and the loop over the changed files
\* starts
StartLoop ==
    /\ mpc = "idle"
    /\ tracing = NoEndpoint
    /\ AllCached(endpoint_deps)
    /\ mpc' = "loop"
    /\ python_files' = <<>>
    /\ all_affected' = <<>>
    /\ seen_endpoints' = {}
    /\ UNCHANGED <<diffVars, registry, backend, threshold, track_transitive, import_map,
                   coverage_data, report, lifeVars, endpoint_deps, traceVars,
                   cacheVars>>

NextPipeline ==
    TraceEndpoint \/ TraceCall \/ TraceReturn \/ StartLoop \/ AnalyzeFile \/ FilterResults

SpecPipeline == InitPipeline /\ [][NextPipeline]_vars

(***************************************************************************)
(* SpecDiff: analyze_diff from its first line, call after call on one      *)
(* ChangeMapper with the same diff, for every backend, with the failures   *)
(* the environment can produce: a diff that does not parse, an endpoint    *)
(* extraction that fails, a graph build that fails, a changed file whose   *)
(* evaluation raises.                                                      *)
(***************************************************************************)
\* what extraction and the backends yield on the project when they succeed
ProjectEndpoints == <<EpA, EpB>>

ProjectDeps ==
    MapSet(MapSet(EmptyMap, "GET /a", DrawnDeps(<<[path |-> LibUtil, val |-> NearLines]>>)),
           "GET /b", DepsOfB)

ProjectGraph ==
    [m \in {<<"app", "main">>, <<"svc", "util">>} |->
        IF m = <<"app", "main">> THEN {<<"svc", "util">>} ELSE {<<"lib", "util">>}]

\* diffs: changed files with one added line each, each file named once
DiffInputs ==
    {q \in SeqsUpTo({df \in DiffFiles : df.removed = {}}, MaxDiffFiles) :
        \A j, k \in 1..Len(q) : j # k => q[j].path # q[k].path}

\* lines 514-527: the parsed files, or none when parsing raised
PythonFiles == IF diff_ok THEN diff ELSE <<>>

\* lines 521-522
ParseErrors == IF diff_ok THEN <<>> ELSE <<"Failed to parse diff">>

Outcome(kind, exception, affected, total, errs, warns) ==
    [kind |-> kind, exception |-> exception, affected_endpoints |-> affected,
     total_endpoints |-> total, errors |-> errs, warnings |-> warns]

\* an exception leaves analyze_diff
Raised(exception) ==
    /\ outcomes' = Append(outcomes, Outcome("raised", exception, <<>>, 0, <<>>, <<>>))
    /\ phase' = "idle"

\* lines 504-527: the call starts and the diff source is parsed
BeginCall ==
    /\ BeginAnalysis
    /\ errors' = ParseErrors
    /\ warnings' = <<>>
    /\ phase' = "registry"
    /\ UNCHANGED <<registry, backend, threshold, track_transitive, import_map,
                   coverage_data, python_files, all_affected, seen_endpoints,
                   report, mpc, mypy_analyzer, coverage_analyzer, cov_cache_file,
                   cov_traced, dep_graph, graph_builds, peer_pc, peer_deps, diff, diff_ok, extract_ok,
                   raisers, registry_init, outcomes, endpoint_deps, traceVars,
                   cacheVars>>

\* line 531, len(self.registry): the registry property (lines 102-109)
\* stores an empty EndpointRegistry and then extracts the endpoints into it
InitRegistry ==
    /\ phase = "registry"
    /\ registry_init' = "ready"
    /\ IF registry_init = "none"
       THEN IF extract_ok
            THEN /\ registry' = ProjectEndpoints
                 /\ phase' = "backend"
                 /\ UNCHANGED outcomes
            ELSE /\ registry' = <<>>
                 /\ Raised("FastAPIExtractorError")
       ELSE /\ phase' = "backend"
            /\ UNCHANGED <<registry, outcomes>>
    /\ UNCHANGED <<backend, threshold, track_transitive, import_map,
                   coverage_data, python_files, all_affected, seen_endpoints,
                   report, mpc, mypy_analyzer, coverage_analyzer, cov_cache_file,
                   cov_traced, dep_graph, graph_builds, analyses, since_clear,
                   peer_pc, peer_deps, diff, diff_ok, extract_ok, raisers, errors, warnings,
                   endpoint_deps, traceVars, cacheVars>>

\* the records of m, and the project's record for every registry entry
\* point that has none in m
AnalyzeMissing(m) ==
    [id \in DOMAIN m \cup {registry[k].identifier : k \in 1..Len(registry)} |->
        IF id \in DOMAIN m THEN m[id] ELSE ProjectDeps[id]]

\* lines 533-548: the selected backend is brought up to date (the analyzer
\* properties and the pre-analysis passes; for the import backend the
\* dep_graph property, lines 111-123, which stores the graph object and then
\* builds it), and the loop over the changed files is entered
InitBackend ==
    /\ phase = "backend"
    /\ IF backend = "import" /\ dep_graph = "none" /\ ~graph_builds
       THEN /\ dep_graph' = "unbuilt"
            /\ Raised("DependencyGraphError")
            /\ UNCHANGED <<import_map, coverage_data, endpoint_deps, mypy_analyzer,
                           coverage_analyzer, python_files, all_affected,
                           seen_endpoints>>
       ELSE /\ phase' = "loop"
            /\ python_files' = <<>>
            /\ all_affected' = <<>>
            /\ seen_endpoints' = {}
            /\ UNCHANGED outcomes
            /\ IF backend = "coverage"
               THEN /\ coverage_analyzer' = "ready"
                    /\ coverage_data' = CovTraceMissing(coverage_data, 1, <<>>).map
                    /\ UNCHANGED <<import_map, endpoint_deps, mypy_analyzer, dep_graph>>
               ELSE IF backend = "mypy"
                    THEN /\ mypy_analyzer' = "ready"
                         /\ endpoint_deps' = AnalyzeMissing(endpoint_deps)
                         /\ UNCHANGED <<import_map, coverage_data, coverage_analyzer,
                                        dep_graph>>
                    ELSE /\ dep_graph' = IF dep_graph = "none" THEN "built" ELSE dep_graph
                         /\ import_map' = IF dep_graph = "none" THEN ProjectGraph
                                          ELSE import_map
                         /\ UNCHANGED <<coverage_data, endpoint_deps, mypy_analyzer,
                                        coverage_analyzer>>
    /\ UNCHANGED <<registry, backend, threshold, track_transitive, report, mpc,
                   cov_cache_file, cov_traced, graph_builds, analyses, since_clear,
                   peer_pc, peer_deps, diff, diff_ok, extract_ok, raisers, registry_init, errors,
                   warnings, traceVars, cacheVars>>

\* the handler of lines 562-563 with the append left out
OnFileErrorSilent(warns, diff_file) == warns

\* lines 562-563: one warning for the file
OnFileError(warns, diff_file) == Append(warns, <<"Error analyzing", diff_file.path>>)

\* lines 550-563: one iteration of the loop, on the next file of the diff
AnalyzeDiffFile ==
    /\ phase = "loop"
    /\ Len(python_files) < Len(PythonFiles)
    /\ LET df == PythonFiles[Len(python_files) + 1]
       IN  /\ python_files' = Append(python_files, df)
           /\ IF df.path \in raisers
              THEN /\ warnings' = OnFileError(warnings, df)
                   /\ UNCHANGED all_affected
              ELSE /\ all_affected' = MergeAffected(all_affected, _analyze_diff_file(df), 1)
                   /\ UNCHANGED warnings
    /\ seen_endpoints' = SeenIn(all_affected')
    /\ UNCHANGED <<registry, backend, threshold, track_transitive, import_map,
                   coverage_data, report, mpc, lifeVars, peer_pc, peer_deps, diff, diff_ok, extract_ok,
                   raisers, registry_init, errors, outcomes, endpoint_deps,
                   traceVars, cacheVars>>

\* lines 565-593: filter by the configured threshold and return the report
ReturnReport ==
    /\ phase = "loop"
    /\ Len(python_files) = Len(PythonFiles)
    /\ report' = FilterByThreshold(all_affected, threshold)
    /\ outcomes' = Append(outcomes, Outcome("report", "", report', Len(registry),
                                            errors, warnings))
    /\ phase' = "idle"
    /\ UNCHANGED <<registry, backend, threshold, track_transitive, import_map,
                   coverage_data, python_files, all_affected, seen_endpoints, mpc,
                   mypy_analyzer, coverage_analyzer, cov_cache_file, cov_traced,
                   dep_graph, graph_builds, analyses, since_clear, peer_pc, peer_deps, diff, diff_ok,
                   extract_ok, raisers, registry_init, errors, warnings,
                   endpoint_deps, traceVars, cacheVars>>

\* a ChangeMapper just constructed (lines 61-90) with the default threshold
\* of config.py:43-48, and the diff it is given
InitDiff ==
    /\ registry = <<>>
    /\ registry_init = "none"
    /\ backend \in {"import", "coverage", "mypy"}
    /\ threshold = 5
    /\ track_transitive = TRUE
    /\ import_map = NoImports
    /\ coverage_data = EmptyCov
    /\ endpoint_deps = EmptyMap
    /\ python_files = <<>>
    /\ all_affected = <<>>
    /\ seen_endpoints = {}
    /\ report = <<>>
    /\ mpc = "idle"
    /\ mypy_analyzer = "none"
    /\ coverage_analyzer = "none"
    /\ cov_cache_file = NoCovFile
    /\ cov_traced = <<>>
    /\ dep_graph = "none"
    /\ graph_builds \in BOOLEAN
    /\ backend = "import" \/ graph_builds
    /\ phase = "idle"
    /\ analyses = 0
    /\ since_clear = -1
    /\ diff \in DiffInputs
    /\ diff_ok \in BOOLEAN
    /\ extract_ok \in BOOLEAN
    /\ raisers \in {{}} \cup {{f} : f \in Files}
    /\ errors = <<>>
    /\ warnings = <<>>
    /\ outcomes = <<>>
    /\ peer_pc = "none"
    /\ peer_deps = EmptyMap
    /\ TraceIdle
    /\ CacheIdle

NextDiff == BeginCall \/ InitRegistry \/ InitBackend \/ AnalyzeDiffFile \/ ReturnReport

SpecDiff == InitDiff /\ [][NextDiff]_vars

(***************************************************************************)
(* SpecSiblings: analyze_endpoints run on a project and then on a sibling  *)
(* of it, a project directory with the same parent.  cache_path is         *)
(* app_path.parent / ".endpoint_mypy_cache.json" (lines 174-179), app_path *)
(* being the project directory: both analyzers read and write one file.    *)
(* The sibling declares the same entry points and has bodies of its own.   *)
(***************************************************************************)
\* a fresh MypyAnalyzer (lines 160-172) on the sibling project; the cache
\* file is what the run on the first project left
NewRunSibling ==
    /\ apc = "done"
    /\ runs < MaxRuns
    /\ runs' = runs + 1
    /\ calls' \in CachePrograms \ {calls}
    /\ endpoint_deps' = EmptyMap
    /\ built' = FALSE
    /\ apc' = "start"
    /\ ai' = 1
    /\ file_read' = NoFile
    /\ loaded_deps' = EmptyMap
    /\ traced' = <<>>
    /\ UNCHANGED <<mapVars, mypy_available, deps, visited, stack, tracing, descents,
                   use_cache, cache_file, last_saved>>

NextSiblings ==
    LoadCache \/ EnsureBuilt \/ LoopSkip \/ LoopTrace \/ TraceCall \/ TraceReturn
      \/ SaveCache \/ NewRunSibling

SpecSiblings == InitCache /\ [][NextSiblings]_vars

(***************************************************************************)
(* DependencyGraph.get_shortest_path (dependency_graph.py, lines 225-260). *)
(* _import_map holds sets, so the order in which the neighbours of a       *)
(* module are met is not fixed by the code: ord is that order, a sequence  *)
(* of all modules.  None is the empty sequence.                            *)
(***************************************************************************)
\* the members of S in the order of ord
InOrder(S, ord) == SelectSeq(ord, LAMBDA m : m \in S)

ModuleOrders ==
    LET q == SetToSeq(Modules)
    IN  {q, [k \in 1..Len(q) |-> q[Len(q) + 1 - k]]}

RECURSIVE get_shortest_path_last(_, _, _, _)
\* the loop with queue.pop() in place of queue.pop(0): the path added last
\* is extended first
get_shortest_path_last(queue, seen, to_module, ord) ==
    IF queue = <<>> THEN <<>>
    ELSE LET path      == queue[Len(queue)]
             current   == path[Len(path)]
             neighbors == InOrder(get_modules_imported_by(current), ord)
             fresh     == SelectSeq(neighbors, LAMBDA m : m \notin seen)
         IN  IF to_module \in get_modules_imported_by(current)
             THEN Append(path, to_module)
             ELSE get_shortest_path_last(
                      SubSeq(queue, 1, Len(queue) - 1)
                        \o [k \in 1..Len(fresh) |-> Append(path, fresh[k])],
                      seen \cup SeqToSet(fresh), to_module, ord)

RECURSIVE get_shortest_path_loop(_, _, _, _)
\* lines 248-258: the while loop over the queue of paths
get_shortest_path_loop(queue, seen, to_module, ord) ==
    IF queue = <<>> THEN <<>>
    ELSE LET path      == Head(queue)
             current   == path[Len(path)]
             neighbors == InOrder(get_modules_imported_by(current), ord)
             fresh     == SelectSeq(neighbors, LAMBDA m : m \notin seen)
         IN  IF to_module \in get_modules_imported_by(current)
             THEN Append(path, to_module)
             ELSE get_shortest_path_loop(
                      Tail(queue)
                        \o [k \in 1..Len(fresh) |-> Append(path, fresh[k])],
                      seen \cup SeqToSet(fresh), to_module, ord)

get_shortest_path(from_module, to_module, ord) ==
    IF from_module = to_module THEN <<from_module>>
    ELSE get_shortest_path_loop(<<<<from_module>>>>, {from_module}, to_module, ord)

\* _check_module_dependency, lines 245-252: the dependency_chain of the LOW
\* finding, from the first of the modules to check that is upstream
dependency_chain(ep, changed_module, ord) ==
    LET to_check == ModulesToCheck(changed_module)
        upstream == get_upstream_modules(ep.module)
        k        == CHOOSE i \in 1..Len(to_check) :
                        /\ to_check[i] \in upstream
                        /\ \A j \in 1..(i - 1) : to_check[j] \notin upstream
        chain    == get_shortest_path(ep.module, to_check[k], ord)
    IN  IF chain # <<>> THEN chain ELSE <<ep.module, to_check[k]>>

(***************************************************************************)
(* MypyAnalyzer.analyze_endpoint as one computation: what a call returns   *)
(* on an analyzer that has traced nothing before.  st is [deps, visited,   *)
(* descents], the objects _trace_references passes down and fills.         *)
(***************************************************************************)
RECURSIVE _trace_references(_, _, _, _)
\* lines 393-560: the walk of the body of definition def from item k on
_trace_references(def, k, call_stack, st) ==
    IF k > Len(calls[def]) THEN st
    ELSE LET item     == calls[def][k]
             fullname == item.fullname
             d        == Defs[def]
             cur_file == module_to_path(d.module)
             deps1    == add_reference(st.deps, cur_file, d.line + k)
             seen     == st.visited \cup {fullname}
             res      == _resolve_fullname_to_file(fullname)
             st1 ==
               IF item.kind = "name" \/ fullname \in st.visited
               THEN [st EXCEPT !.deps = deps1]
               ELSE IF res = <<>>
               THEN [st EXCEPT !.deps = deps1, !.visited = seen]
               ELSE LET target_path == module_to_path(res[1])
                        func == _find_func_in_tree(Tree(res[1]), fullname[Len(fullname)])
                    IN  IF func # <<>>
                        THEN LET t == Defs[func[1]]
                             IN  _trace_references(func[1], 1,
                                    Append(call_stack, CallFrame(target_path, t.line, fullname)),
                                    [deps |-> RecordCallStack(
                                                 add_symbol_reference(deps1, target_path, fullname,
                                                                      t.line, t.end_line),
                                                 target_path, call_stack),
                                     visited  |-> seen,
                                     descents |-> Append(st.descents, fullname)])
                        ELSE [st EXCEPT !.deps = RecordCallStack(
                                                 add_symbol_reference(deps1, target_path, fullname,
                                                                      ModuleRefStart, ModuleRefEnd),
                                                 target_path, call_stack),
                                        !.visited = seen]
         IN  _trace_references(def, k + 1, call_stack, st1)

\* lines 332-391; stored tells whether the record went into _endpoint_deps
analyze_endpoint(ep) ==
    IF ep.file_path = <<>> \/ ~mypy_available
    THEN [deps |-> EmptyDeps, visited |-> {}, descents |-> <<>>, stored |-> FALSE]
    ELSE LET hm    == HandlerModule(ep)
             found == IF hm = <<>> THEN <<>> ELSE _find_func_in_tree(Tree(hm), ep.name)
         IN  IF found = <<>>
             THEN [deps |-> FallbackDeps(ep), visited |-> {}, descents |-> <<>>, stored |-> TRUE]
             ELSE LET d  == Defs[found[1]]
                      st == _trace_references(found[1], 1,
                               <<CallFrame(ep.file_path, d.line, <<ep.name>>)>>,
                               [deps |-> add_symbol_reference(EmptyDeps, ep.file_path, <<ep.name>>,
                                                              d.line, d.end_line),
                                visited |-> {}, descents |-> <<>>])
                  IN  [deps |-> st.deps, visited |-> st.visited, descents |-> st.descents,
                       stored |-> TRUE]

(***************************************************************************)
(* SpecEntry: analyze_endpoints, run after run, on registries that hold    *)
(* handlers the analyzer cannot locate, with the typed build available or  *)
(* not, with bodies in which both handlers call the same functions, and    *)
(* with no cache file or one that holds a record for GET /a.               *)
(***************************************************************************)
\* besides the two located handlers: a handler whose definition is not in
\* its module's tree (lines 370-378), one whose module is outside the
\* analyzed trees (lines 363-368), and a built-in, for which the extractor
\* gives the path "<unknown>", line 0 and no end line
\* (fastapi_extractor.py, lines 139-149)
EntryRegistries ==
    LET EpLost    == [identifier |-> "GET /lost", name |-> "gone",
                      module |-> <<"svc", "util">>, file_path |-> SvcUtil,
                      line_number |-> 30, end_line_number |-> 0]
        EpForeign == [identifier |-> "GET /ext", name |-> "handler",
                      module |-> <<"ext", "main">>, file_path |-> <<"ext", "main.py">>,
                      line_number |-> 4, end_line_number |-> 6]
        EpBuiltIn == [identifier |-> "GET /len", name |-> "len",
                      module |-> <<"builtins">>, file_path |-> <<".", "<unknown>">>,
                      line_number |-> 0, end_line_number |-> 0]
    IN  {<<EpA, EpB>>, <<EpB, EpA>>, <<EpA, EpLost>>, <<EpForeign, EpB>>, <<EpBuiltIn, EpA>>}

EntryPrograms ==
    {[i \in DefIds |-> IF i = 1 THEN h ELSE IF i = 2 THEN o ELSE IF i = 3 THEN a ELSE <<>>] :
        h \in SeqsUpTo({CallOf(3), CallOf(5)}, MaxCalls),
        o \in SeqsUpTo({CallOf(3), CallOf(5)}, MaxCalls),
        a \in SeqsUpTo({CallOf(5)}, MaxCalleeCalls)}

InitEntry ==
    /\ LifeIdle
    /\ registry \in EntryRegistries
    /\ backend = "mypy"
    /\ threshold = 0
    /\ track_transitive = TRUE
    /\ import_map = NoImports
    /\ coverage_data = EmptyCov
    /\ python_files = <<>>
    /\ all_affected = <<>>
    /\ seen_endpoints = {}
    /\ report = <<>>
    /\ mpc = "idle"
    /\ endpoint_deps = EmptyMap
    /\ mypy_available \in BOOLEAN
    /\ calls \in EntryPrograms
    /\ deps = EmptyDeps
    /\ visited = {}
    /\ stack = <<>>
    /\ tracing = NoEndpoint
    /\ descents = <<>>
    /\ use_cache \in BOOLEAN
    /\ cache_file \in {NoFile,
                        [exists |-> TRUE, parses |-> TRUE,
                         entries |-> <<[id |-> "GET /a", ok |-> TRUE, data |-> StaleData]>>]}
    /\ built = FALSE
    /\ apc = "start"
    /\ ai = 1
    /\ runs = 1
    /\ file_read = NoFile
    /\ loaded_deps = EmptyMap
    /\ traced = <<>>
    /\ last_saved = EmptyMap

SpecEntry == InitEntry /\ [][NextCache]_vars

(***************************************************************************)
(* SpecConcurrent: two analyzer processes run analyze_endpoints on the     *)
(* same project at the same time.  The first is the analyzer of SpecCache, *)
(* step by step; the second, the peer, owns peer_deps and shares nothing   *)
(* with it but the file at cache_path.  Path.write_text opens the file for *)
(* writing, which empties it, and then writes: the peer's save is the two  *)
(* steps PeerTruncate and PeerWrite, and a reader in between finds a file  *)
(* that does not parse.                                                    *)
(***************************************************************************)
\* lines 652-663 in the peer: load the cache; return when complete
PeerLoad ==
    /\ peer_pc = "start"
    /\ IF use_cache /\ cache_file.exists
       THEN /\ peer_deps' = _load_cache(cache_file, peer_deps)
            /\ peer_pc' = IF AllCached(peer_deps') THEN "returned" ELSE "loop"
       ELSE /\ peer_pc' = "loop"
            /\ UNCHANGED peer_deps
    /\ UNCHANGED <<registry, backend, threshold, track_transitive, import_map,
                   coverage_data, python_files, all_affected, seen_endpoints,
                   report, mpc, lifeVars, diff, diff_ok, extract_ok, raisers,
                   registry_init, errors, warnings, outcomes, endpoint_deps,
                   traceVars, cacheVars>>

\* lines 665-674 in the peer: every entry point without a record is analyzed
PeerTrace ==
    /\ peer_pc = "loop"
    /\ peer_deps' =
          LET ep(id) == registry[CHOOSE k \in 1..Len(registry) : registry[k].identifier = id]
              new    == {registry[k].identifier : k \in 1..Len(registry)} \ DOMAIN peer_deps
              stored == {id \in new : analyze_endpoint(ep(id)).stored}
          IN  [id \in DOMAIN peer_deps \cup stored |->
                  IF id \in DOMAIN peer_deps THEN peer_deps[id]
                  ELSE analyze_endpoint(ep(id)).deps]
    /\ peer_pc' = "save"
    /\ UNCHANGED <<registry, backend, threshold, track_transitive, import_map,
                   coverage_data, python_files, all_affected, seen_endpoints,
                   report, mpc, lifeVars, diff, diff_ok, extract_ok, raisers,
                   registry_init, errors, warnings, outcomes, endpoint_deps,
                   traceVars, cacheVars>>

\* lines 676-678 and 714-715 in the peer: write_text opens the file
PeerTruncate ==
    /\ peer_pc = "save"
    /\ IF use_cache
       THEN /\ cache_file' = Garbage
            /\ peer_pc' = "write"
       ELSE /\ peer_pc' = "returned"
            /\ UNCHANGED cache_file
    /\ UNCHANGED <<registry, backend, threshold, track_transitive, import_map,
                   coverage_data, python_files, all_affected, seen_endpoints,
                   report, mpc, lifeVars, diff, diff_ok, extract_ok, raisers,
                   registry_init, errors, warnings, outcomes, peer_deps,
                   endpoint_deps, traceVars, use_cache, built, apc, ai, runs,
                   file_read, loaded_deps, traced, last_saved>>

\* lines 714-717 in the peer: the whole in-memory map is written
PeerWrite ==
    /\ peer_pc = "write"
    /\ cache_file' = SavedFile(peer_deps)
    /\ peer_pc' = "saved"
    /\ UNCHANGED <<registry, backend, threshold, track_transitive, import_map,
                   coverage_data, python_files, all_affected, seen_endpoints,
                   report, mpc, lifeVars, diff, diff_ok, extract_ok, raisers,
                   registry_init, errors, warnings, outcomes, peer_deps,
                   endpoint_deps, traceVars, use_cache, built, apc, ai, runs,
                   file_read, loaded_deps, traced, last_saved>>

\* both processes are about to call analyze_endpoints; the cache file is
\* what earlier runs left, and the registry may have lost GET /b since
InitConcurrent ==
    /\ mypy_analyzer = "none"
    /\ coverage_analyzer = "none"
    /\ cov_cache_file = NoCovFile
    /\ cov_traced = <<>>
    /\ dep_graph = "none"
    /\ graph_builds = TRUE
    /\ phase = "idle"
    /\ analyses = 0
    /\ since_clear = -1
    /\ diff = <<>>
    /\ diff_ok = TRUE
    /\ extract_ok = TRUE
    /\ raisers = {}
    /\ registry_init = "ready"
    /\ errors = <<>>
    /\ warnings = <<>>
    /\ outcomes = <<>>
    /\ peer_pc = "start"
    /\ peer_deps = EmptyMap
    /\ registry \in {<<EpA, EpB>>, <<EpA>>}
    /\ backend = "mypy"
    /\ threshold = 0
    /\ track_transitive = TRUE
    /\ import_map = NoImports
    /\ coverage_data = EmptyCov
    /\ python_files = <<>>
    /\ all_affected = <<>>
    /\ seen_endpoints = {}
    /\ report = <<>>
    /\ mpc = "idle"
    /\ endpoint_deps = EmptyMap
    /\ mypy_available = TRUE
    /\ calls \in CachePrograms
    /\ deps = EmptyDeps
    /\ visited = {}
    /\ stack = <<>>
    /\ tracing = NoEndpoint
    /\ descents = <<>>
    /\ use_cache \in BOOLEAN
    /\ cache_file \in CacheFiles
    /\ built = FALSE
    /\ apc = "start"
    /\ ai = 1
    /\ runs = 1
    /\ file_read = NoFile
    /\ loaded_deps = EmptyMap
    /\ traced = <<>>
    /\ last_saved = EmptyMap

NextConcurrent ==
    LoadCache \/ EnsureBuilt \/ LoopSkip \/ LoopTrace \/ TraceCall \/ TraceReturn
      \/ SaveCache \/ PeerLoad \/ PeerTrace \/ PeerTruncate \/ PeerWrite

SpecConcurrent == InitConcurrent /\ [][NextConcurrent]_vars

(***************************************************************************)
(* Properties of analyze_diff (SpecMap).                                   *)
(***************************************************************************)
FindingsFor(affected, id) == {k \in 1..Len(affected) : affected[k].endpoint = id}

\* the changed file is the entry point's handler file and a changed line
\* (added or removed) lies in the handler's range
DirectHit(ep, diff_file) ==
    /\ ep.file_path = diff_file.path
    /\ ChangedLines(diff_file) \cap HandlerLines(ep) # {}

\* C1 (direct-hit precedence): when analyze_diff has returned, every entry
\* point whose handler range is hit by the changed lines of some changed file
\* has a finding in the report, and that finding is HIGH, whatever a backend
\* says about the entry point on this or another changed file.
C1_DirectHitIsHigh ==
    mpc = "done" =>
        \A k \in 1..Len(python_files), e \in 1..Len(registry) :
            DirectHit(registry[e], python_files[k]) =>
                /\ FindingsFor(report, registry[e].identifier) # {}
                /\ \A j \in FindingsFor(report, registry[e].identifier) :
                       report[j].confidence = "HIGH"

\* the changed file's analysis yields a finding for the entry point
Implicates(diff_file, id) == FindingsFor(_analyze_diff_file(diff_file), id) # {}

ImplicatingFiles(id) == {k \in 1..Len(python_files) : Implicates(python_files[k], id)}

\* C2 as stated (deduplication): an entry point implicated by more than one
\* changed file has exactly one finding in the final report.
C2_ExactlyOneFinding ==
    mpc = "done" =>
        \A id \in Identifiers :
            Cardinality(ImplicatingFiles(id)) >= 2 =>
                Cardinality(FindingsFor(report, id)) = 1

\* every finding any changed file yields for the entry point passes the threshold
AllAtOrAbove(id, th) ==
    \A k \in ImplicatingFiles(id) :
        LET fa == _analyze_diff_file(python_files[k])
        IN  \A j \in FindingsFor(fa, id) : ConfidenceOrder(fa[j].confidence) >= th

\* C2 as amended: the final report never holds more than one finding for an
\* entry point, and it holds exactly one for an entry point implicated by
\* several changed files when each of their findings for it is at or above
\* the confidence threshold.
C2_AtMostOneFinding ==
    /\ \A id \in Identifiers : Cardinality(FindingsFor(all_affected, id)) <= 1
    /\ mpc = "done" =>
        \A id \in Identifiers :
            /\ Cardinality(FindingsFor(report, id)) <= 1
            /\ (Cardinality(ImplicatingFiles(id)) >= 2 /\ AllAtOrAbove(id, threshold))
                   => Cardinality(FindingsFor(report, id)) = 1

\* two changed files implicate one entry point and the report holds its finding
C2_Witness ==
    /\ mpc = "done"
    /\ \E id \in Identifiers :
          /\ Cardinality(ImplicatingFiles(id)) >= 2
          /\ Cardinality(FindingsFor(report, id)) = 1
\* C29 as stated (filter after deduplication hides no qualifying finding):
\* when analyze_diff has returned, an entry point for which some changed
\* file yields a finding at or above the confidence threshold has a finding
\* in the report, whatever the files before it yielded for it.
C29_QualifyingFindingKept ==
    mpc = "done" =>
        \A id \in Identifiers :
            (\E k \in 1..Len(python_files) :
                LET fa == _analyze_diff_file(python_files[k])
                IN  \E j \in FindingsFor(fa, id) :
                        ConfidenceOrder(fa[j].confidence) >= threshold)
              => FindingsFor(report, id) # {}

\* C5 as stated (context window), on the first changed file of the diff: an
\* entry point that is not hit directly and whose record holds lines for the
\* changed file gets a MEDIUM finding from the symbol-level check exactly
\* when one of those recorded lines is within 3 lines of a changed line.
C5_ContextWindow ==
    (backend = "mypy" /\ Len(python_files) >= 1) =>
        LET df == python_files[1]
        IN  \A e \in 1..Len(registry) :
               LET ep == registry[e]
               IN  (/\ ep.identifier \in DOMAIN endpoint_deps
                    /\ DictHas(endpoint_deps[ep.identifier].referenced_files, df.path)
                    /\ ~DirectHit(ep, df))
                   =>
                   ((\E j \in FindingsFor(all_affected, ep.identifier) :
                        /\ all_affected[j].changed_file = df.path
                        /\ all_affected[j].confidence = "MEDIUM")
                    <=>
                    (\E r \in DictGet(endpoint_deps[ep.identifier].referenced_files, df.path),
                        l \in ChangedLines(df) :
                        r - l <= ContextWindow /\ l - r <= ContextWindow))

\* C6 (confidence monotonicity): the findings analyze_diff reports for a
\* threshold are those of all_affected that pass it, all_affected being
\* complete before the threshold is read; so for the same inputs every
\* threshold at or above the configured one reports a sub-list of the report,
\* and every threshold at or below it reports a super-list.
C6_ThresholdMonotone ==
    mpc = "done" =>
        \A t \in 0..10 :
            LET other == FilterByThreshold(all_affected, t)
            IN  /\ t >= threshold =>
                      /\ SeqToSet(other) \subseteq SeqToSet(report)
                      /\ Len(other) <= Len(report)
                /\ t <= threshold =>
                      /\ SeqToSet(report) \subseteq SeqToSet(other)
                      /\ Len(report) <= Len(other)

\* the configured threshold drops some finding and keeps another
C6_Witness ==
    /\ mpc = "done"
    /\ Len(report) >= 1
    /\ Len(report) < Len(all_affected)

(***************************************************************************)
(* Properties of the tracer (SpecTrace, SpecTraceFair).                    *)
(***************************************************************************)
\* the definitions a body calls, each callee name taken as the definition
\* that bears exactly that fully-qualified name
CalledDefs(i) ==
    {j \in DefIds : \E k \in 1..Len(calls[i]) :
        calls[i][k].kind = "call" /\ calls[i][k].fullname = FullName(Defs[j])}

RECURSIVE ReachableFrom(_)
ReachableFrom(S) ==
    LET more == S \cup UNION {CalledDefs(i) : i \in S}
    IN  IF more = S THEN S ELSE ReachableFrom(more)

HandlerDef(ep) ==
    CHOOSE i \in DefIds : Defs[i].module = ep.module /\ Defs[i].name = ep.name

HasSymbolFor(d, i) ==
    /\ \E k \in 1..Len(d.referenced_symbols) :
          /\ d.referenced_symbols[k].file_path = module_to_path(Defs[i].module)
          /\ d.referenced_symbols[k].start_line = Defs[i].line
          /\ d.referenced_symbols[k].end_line = Defs[i].end_line
    /\ DictHas(d.referenced_files, module_to_path(Defs[i].module))

\* C3 (cycle termination): in every project, cyclic ones included, a trace
\* that has started ends; while it runs the visited set only grows, every
\* descent is for a name that was not in the visited set and is in it
\* afterwards, and the descents of one trace are at most as many as the
\* distinct fully-qualified callee names of the project.
C3_CycleTermination ==
    /\ [][tracing # NoEndpoint => visited \subseteq visited']_vars
    /\ [][(tracing # NoEndpoint /\ descents' # descents) =>
              /\ Len(descents') = Len(descents) + 1
              /\ descents'[Len(descents')] \notin visited
              /\ descents'[Len(descents')] \in visited']_vars
    /\ [](Len(descents) <= Cardinality(CalleeNames))
    /\ [](Len(stack) <= Cardinality(CalleeNames) + 1)
    /\ (tracing # NoEndpoint) ~> (tracing = NoEndpoint)

\* a trace has ended in which a function that calls itself was descended into
C3_Witness ==
    /\ tracing = NoEndpoint
    /\ "GET /a" \in DOMAIN endpoint_deps
    /\ \E i \in DefIds :
          /\ FullName(Defs[i]) \in SeqToSet(descents)
          /\ i \in CalledDefs(i)

\* C4 as stated (reachability completeness): the record stored for a traced
\* entry point holds a SymbolReference (file and line range) for the handler
\* and for every definition reachable from it through calls, and lists the
\* file of each.
C4_ReachabilityComplete ==
    \A e \in 1..Len(registry) :
        (registry[e].identifier \in DOMAIN endpoint_deps) =>
            \A i \in ReachableFrom({HandlerDef(registry[e])}) :
                HasSymbolFor(endpoint_deps[registry[e].identifier], i)

(***************************************************************************)
(* Properties of analyze_endpoints and the cache (SpecCache).              *)
(***************************************************************************)
RegistryIds == {registry[k].identifier : k \in 1..Len(registry)}

SameReferencedFiles(d1, d2) ==
    /\ DictKeys(d1.referenced_files) = DictKeys(d2.referenced_files)
    /\ \A f \in DictKeys(d1.referenced_files) :
          DictGet(d1.referenced_files, f) = DictGet(d2.referenced_files, f)

\* a fresh analyzer has just loaded the file the run before it saved
LoadedWhatWasSaved ==
    /\ runs >= 2
    /\ apc \in {"build", "done"}
    /\ traced = <<>>
    /\ file_read.exists

C8_CacheHitSkipsTracing ==
    (apc = "done" /\ use_cache /\ file_read.exists
        /\ RegistryIds \subseteq DOMAIN loaded_deps) =>
        /\ traced = <<>>
        /\ ~built
        /\ tracing = NoEndpoint
        /\ endpoint_deps = loaded_deps

\* the first run found a complete cache on disk
C8_Witness ==
    /\ apc = "done"
    /\ runs = 1
    /\ use_cache
    /\ file_read.exists
    /\ RegistryIds \subseteq DOMAIN loaded_deps
    /\ Len(registry) >= 2

\* what a fresh analyzer would load from the file on disk
Persisted == _load_cache(cache_file, EmptyMap)

Corrupt(file) ==
    \/ ~file.parses
    \/ \E k \in 1..Len(file.entries) : ~file.entries[k].ok

\* C10 as stated (cache corruption is a cache miss): when analyze_endpoints
\* has returned from a run with caching enabled that found a corrupt cache
\* file, no entry of that file was loaded and analyze_endpoint was called for
\* every entry point of the registry.
C10_CorruptionIsMiss ==
    (apc = "done" /\ use_cache /\ file_read.exists /\ Corrupt(file_read)) =>
        /\ DOMAIN loaded_deps = {}
        /\ SeqToSet(traced) = RegistryIds

(***************************************************************************)
(* Properties of clear_cache (SpecClear).                                  *)
(***************************************************************************)
\* C11 as stated (cache clear): once clear_cache has returned, whichever
\* backend is configured, no analysis cache of the project is left on disk
\* and the in-memory maps are empty; the first analysis after it calls
\* analyze_endpoint (trace_endpoint_handler for the coverage backend) for
\* every entry point of the registry.
C11_CacheCleared ==
    /\ since_clear = 0 =>
          /\ ~cache_file.exists
          /\ ~cov_cache_file.exists
          /\ endpoint_deps = EmptyMap
          /\ coverage_data = EmptyCov
    /\ (since_clear = 1 /\ phase = "idle" /\ backend = "mypy") =>
          SeqToSet(traced) = RegistryIds
    /\ (since_clear = 1 /\ phase = "idle" /\ backend = "coverage") =>
          SeqToSet(cov_traced) = RegistryIds


(***************************************************************************)
(* Properties of the traces a finding carries (SpecPipeline).              *)
(***************************************************************************)
\* AffectedEndpoint has one call_stack field: the traces of a finding
TracesOf(finding) == {finding.call_stack}

Through(trace, i) ==
    \E k \in 1..Len(trace) : trace[k].function_name = FullName(Defs[i])

\* the handler calls the services A.run and B.run, each of which calls util
Diamond ==
    /\ SeqToSet(calls[1]) = {CallOf(3), CallOf(4)}
    /\ calls[3] = <<CallOf(5)>>
    /\ calls[4] = <<CallOf(5)>>

\* the diff evaluated so far is one changed file, the utility's
OnlyUtilityChanged ==
    /\ mpc \in {"loop", "done"}
    /\ Len(python_files) = 1
    /\ python_files[1].path = LibUtil

\* C12 as stated (multiple traces): when the handler reaches util through
\* A.run and through B.run and the diff changes util, there is exactly one
\* finding for the handler and it carries two distinct traces, one through
\* each service.
C12_MultipleTraces ==
    (Diamond /\ OnlyUtilityChanged) =>
        /\ Cardinality(FindingsFor(all_affected, "GET /a")) = 1
        /\ \A k \in FindingsFor(all_affected, "GET /a") :
              \E t1, t2 \in TracesOf(all_affected[k]) :
                  /\ t1 # t2
                  /\ Through(t1, 3)
                  /\ Through(t2, 4)


\* the handler calls A.run and nothing else, A.run calls util
Chain ==
    /\ calls[1] = <<CallOf(3)>>
    /\ calls[3] = <<CallOf(5)>>

EndpointOf(id) == registry[CHOOSE k \in 1..Len(registry) : registry[k].identifier = id]

\* the finding of the chain: MEDIUM, its trace the handler's frame and then
\* the frame of A.run
FindingTraceLength ==
    (Chain /\ OnlyUtilityChanged) =>
        /\ Cardinality(FindingsFor(all_affected, "GET /a")) = 1
        /\ \A k \in FindingsFor(all_affected, "GET /a") :
              /\ all_affected[k].confidence = "MEDIUM"
              /\ Len(all_affected[k].call_stack) = 2
              /\ all_affected[k].call_stack[1].function_name = <<"handler">>
              /\ all_affected[k].call_stack[2].function_name = FullName(Defs[3])

\* a step of the tracer that stores a trace for a file stores as many
\* frames as there are nested activations, the first being the handler's
StoredTraceLength ==
    (tracing # NoEndpoint) =>
        \A k \in 1..Len(deps'.call_stacks) :
            k > Len(deps.call_stacks) =>
                LET t == deps'.call_stacks[k].val
                IN  /\ Len(t) = Len(stack)
                    /\ t[1].file_path = EndpointOf(tracing).file_path
                    /\ t[1].function_name = <<EndpointOf(tracing).name>>

\* C13 as stated (trace length): a diff changing util in the project
\* handler -> A.run -> util yields a MEDIUM finding whose trace has exactly
\* two frames, the handler's and then A.run's; and the trace stored for a
\* file first reached through k nested resolved calls has k frames, the
\* first of which is the handler's.
C13_TraceLength ==
    /\ []FindingTraceLength
    /\ [][StoredTraceLength]_vars


(***************************************************************************)
(* Properties of analyze_diff as a whole (SpecDiff).                       *)
(***************************************************************************)
\* C14 as stated (malformed diff): every analyze_diff call on a diff that
\* does not parse, whatever the backend, returns a report with exactly one
\* error string and no affected endpoints; no exception reaches the caller.
C14_MalformedDiff ==
    ~diff_ok =>
        \A k \in 1..Len(outcomes) :
            /\ outcomes[k].kind = "report"
            /\ Len(outcomes[k].errors) = 1
            /\ outcomes[k].affected_endpoints = <<>>


\* the changed files whose evaluation raises, as positions in the diff
RaisingFiles == {k \in 1..Len(PythonFiles) : PythonFiles[k].path \in raisers}

RECURSIVE AffectedWithout(_, _)
\* the findings of the loop had the raising files not been in the diff
AffectedWithout(k, acc) ==
    IF k > Len(PythonFiles) THEN acc
    ELSE IF k \in RaisingFiles THEN AffectedWithout(k + 1, acc)
         ELSE AffectedWithout(k + 1, MergeAffected(acc, _analyze_diff_file(PythonFiles[k]), 1))

\* C15 (per-file failure isolation): when analyze_diff has returned its
\* report, the report holds exactly one warning for each changed file whose
\* evaluation raised, naming that file, and its findings are those of the
\* other changed files, the ones before and the ones after a raising file
\* alike, filtered by the threshold.
C15_PerFileIsolation ==
    (phase = "idle" /\ outcomes # <<>> /\ outcomes[Len(outcomes)].kind = "report") =>
        LET o == outcomes[Len(outcomes)]
        IN  /\ Len(o.warnings) = Cardinality(RaisingFiles)
            /\ \A j \in 1..Len(o.warnings) : o.warnings[j][2] \in raisers
            /\ o.affected_endpoints = FilterByThreshold(AffectedWithout(1, <<>>), threshold)

\* a report was returned for a diff of two files of which the first raised
\* and the second gave a finding
C15_Witness ==
    /\ phase = "idle"
    /\ outcomes # <<>>
    /\ outcomes[Len(outcomes)].kind = "report"
    /\ Len(PythonFiles) = 2
    /\ RaisingFiles = {1}
    /\ Len(outcomes[Len(outcomes)].warnings) = 1
    /\ outcomes[Len(outcomes)].affected_endpoints # <<>>


\* C20 as stated (idempotent stages): two analyze_diff calls on one
\* ChangeMapper with the same diff give their caller the same outcome, the
\* same report or the same failure, also when the first call failed while
\* the registry or the backend was being initialized.
C20_Idempotent ==
    Len(outcomes) = 2 => outcomes[1] = outcomes[2]


\* C26 as stated (coarse fallback): with the import backend, on a project
\* whose import graph cannot be built and whose entry points were
\* extracted, every analyze_diff call returns a report; none ends with an
\* exception.
C26_CoarseFallback ==
    (backend = "import" /\ ~graph_builds /\ extract_ok) =>
        \A k \in 1..Len(outcomes) : outcomes[k].kind = "report"


(***************************************************************************)
(* Properties of the symbol-level check (SpecMap).                         *)
(***************************************************************************)
\* C16 as stated (no false hit on unrelated files): with the mypy backend
\* an entry point has a dependency finding for a changed file only if that
\* very file is a key of the referenced_files recorded for it; a changed
\* file that merely bears the file name of a recorded file gives none.
C16_NoFalseHit ==
    backend = "mypy" =>
        \A k \in 1..Len(all_affected) :
            all_affected[k].confidence # "HIGH" =>
                /\ all_affected[k].endpoint \in DOMAIN endpoint_deps
                /\ DictHas(endpoint_deps[all_affected[k].endpoint].referenced_files,
                           all_affected[k].changed_file)


(***************************************************************************)
(* Properties of EndpointDependencies (SpecCache).                         *)
(***************************************************************************)
\* each line listed for a file lies in the range of a symbol of that file
LinesOwned(d) ==
    \A k \in 1..Len(d.referenced_files) :
        \A l \in d.referenced_files[k].val :
            \E j \in 1..Len(d.referenced_symbols) :
                /\ d.referenced_symbols[j].file_path = d.referenced_files[k].path
                /\ d.referenced_symbols[j].start_line <= l
                /\ l <= d.referenced_symbols[j].end_line

Prefixes(m) == {SubSeq(m, 1, i) : i \in 1..Len(m)}

DirectImports(m) == IF m \in DOMAIN import_map THEN import_map[m] ELSE {}

RECURSIVE ImportClosure(_)
\* the least set that holds S and the direct imports of each of its members
ImportClosure(S) ==
    LET more == S \cup UNION {DirectImports(m) : m \in S}
    IN  IF more = S THEN S ELSE ImportClosure(more)

TransitiveImports(m) == ImportClosure(DirectImports(m))

\* C18 (import-graph confidence): with the import backend and one changed
\* file evaluated, an entry point whose handler module is not the changed
\* module has a MEDIUM finding when the changed module or one of its parent
\* packages is a direct import of the handler module, a LOW finding when it
\* is only a transitive import and transitive tracking is on, and no finding
\* otherwise.
C18_ImportConfidence ==
    (backend = "import" /\ Len(python_files) = 1) =>
        \A e \in 1..Len(registry) :
            LET ep == registry[e]
                cm == file_path_to_module(python_files[1].path)
                fs == FindingsFor(all_affected, ep.identifier)
            IN  ep.module # cm =>
                    IF Prefixes(cm) \cap DirectImports(ep.module) # {}
                    THEN /\ Cardinality(fs) = 1
                         /\ \A k \in fs : all_affected[k].confidence = "MEDIUM"
                    ELSE IF track_transitive
                            /\ Prefixes(cm) \cap TransitiveImports(ep.module) # {}
                         THEN /\ Cardinality(fs) = 1
                              /\ \A k \in fs : all_affected[k].confidence = "LOW"
                         ELSE fs = {}

\* one changed file gave a LOW finding to an entry point that imports the
\* changed module transitively and a MEDIUM finding to one that imports it
\* directly
C18_Witness ==
    /\ backend = "import"
    /\ track_transitive
    /\ Len(python_files) = 1
    /\ \E j, k \in 1..Len(all_affected) :
          /\ all_affected[j].confidence = "LOW"
          /\ all_affected[k].confidence = "MEDIUM"


(***************************************************************************)
(* Properties of the cache across projects (SpecSiblings).                 *)
(***************************************************************************)
\* C19 as stated (cache keyed on project): the analyzer of the sibling
\* project holds no record but those it traced itself; a record the run on
\* the first project saved is never loaded for the sibling's entry point of
\* the same identifier.
C19_CacheKeyedOnProject ==
    runs > 1 => \A id \in DOMAIN endpoint_deps : id \in SeqToSet(traced)



(***************************************************************************)
(* Properties of the shortest import path (SpecMap).                       *)
(***************************************************************************)
\* the sequences of modules of length n
PathsOfLength(n) == [1..n -> Modules]

\* p leads from a to b along direct-import edges
IsImportPath(p, a, b) ==
    /\ Len(p) >= 1
    /\ p[1] = a
    /\ p[Len(p)] = b
    /\ \A k \in 1..(Len(p) - 1) : p[k + 1] \in DirectImports(p[k])

Reachable(a, b) == b \in ImportClosure({a})

\* no path from a to b has fewer than n modules
NoShorterPath(a, b, n) ==
    \A l \in 1..(n - 1) : \A p \in PathsOfLength(l) : ~IsImportPath(p, a, b)

ShortestPathCorrect(a, b, ord) ==
    LET p == get_shortest_path(a, b, ord)
    IN  /\ (p = <<>>) <=> ~Reachable(a, b)
        /\ p # <<>> => /\ IsImportPath(p, a, b)
                       /\ NoShorterPath(a, b, Len(p))

\* C21 (shortest import path): with the import backend, for all modules A
\* and B and every order in which neighbours are met, get_shortest_path(A, B)
\* is None exactly when B is not reachable from A along direct-import edges,
\* and is otherwise a path from A to B along direct-import edges that no
\* path from A to B is shorter than, cycles in the graph included; the
\* dependency chain of a LOW finding is such a path from the handler module
\* to the changed module or one of its parent packages.
C21_ShortestPath ==
    (backend = "import" /\ Len(python_files) = 1) =>
        \A ord \in ModuleOrders :
            /\ \A a, b \in Modules : ShortestPathCorrect(a, b, ord)
            /\ \A e \in 1..Len(registry) :
                  \A k \in FindingsFor(all_affected, registry[e].identifier) :
                      all_affected[k].confidence = "LOW" =>
                          LET ep    == registry[e]
                              cm    == file_path_to_module(python_files[1].path)
                              chain == dependency_chain(ep, cm, ord)
                              mod   == chain[Len(chain)]
                          IN  /\ mod \in Prefixes(cm)
                              /\ chain = get_shortest_path(ep.module, mod, ord)
                              /\ IsImportPath(chain, ep.module, mod)
                              /\ NoShorterPath(ep.module, mod, Len(chain))

\* a LOW finding whose dependency chain has three modules while a path of
\* four modules leads to the same module
C21_Witness ==
    /\ backend = "import"
    /\ Len(python_files) = 1
    /\ \E e \in 1..Len(registry) :
          \E k \in FindingsFor(all_affected, registry[e].identifier) :
              /\ all_affected[k].confidence = "LOW"
              /\ \E ord \in ModuleOrders :
                    LET ep    == registry[e]
                        chain == dependency_chain(ep, file_path_to_module(python_files[1].path), ord)
                    IN  /\ Len(chain) = 3
                        /\ \E p \in PathsOfLength(4) : IsImportPath(p, ep.module, chain[3])



(***************************************************************************)
(* Properties of the cycle guard within one trace (SpecTrace).             *)
(***************************************************************************)
\* the body item the walk handles next, when there is one
AtCall ==
    /\ tracing # NoEndpoint
    /\ stack # <<>>
    /\ stack[Len(stack)].k <= Len(calls[stack[Len(stack)].def])

NextItem == calls[stack[Len(stack)].def][stack[Len(stack)].k]

IsPrefix(p, q) == Len(p) <= Len(q) /\ p = SubSeq(q, 1, Len(p))

SymbolNames(d) == {d.referenced_symbols[k].symbol_name : k \in 1..Len(d.referenced_symbols)}

\* C23 (per-trace cycle guard): every record analyze_endpoint stored during
\* a run equals the record the same call computes on an analyzer that has
\* traced nothing before, whichever entry points were traced earlier in the
\* run; and while an entry point is traced, the names descended into so far
\* are the first ones such a fresh call descends into, a name visited for
\* an earlier entry point included.
C23_PerTraceGuard ==
    /\ \A id \in DOMAIN endpoint_deps \ DOMAIN loaded_deps :
          endpoint_deps[id] = analyze_endpoint(EndpointOf(id)).deps
    /\ tracing # NoEndpoint =>
          /\ IsPrefix(descents, analyze_endpoint(EndpointOf(tracing)).descents)
          /\ visited \subseteq analyze_endpoint(EndpointOf(tracing)).visited

\* the second entry point of a run is being traced and has descended into a
\* function that the record of the first shows as descended into as well
C23_Witness ==
    /\ tracing # NoEndpoint
    /\ Len(traced) = 2
    /\ traced[1] \in DOMAIN endpoint_deps
    /\ tracing = traced[2]
    /\ \E n \in SeqToSet(descents) : n \in SymbolNames(endpoint_deps[traced[1]])



(***************************************************************************)
(* Properties of method resolution (SpecTrace).                            *)
(***************************************************************************)
\* every SymbolReference of d recorded under the name of a method of the
\* project carries that method's own line range
OwnMethodRange(d) ==
    \A k \in 1..Len(d.referenced_symbols) :
        \A i \in DefIds :
            (Defs[i].cls # "" /\ d.referenced_symbols[k].symbol_name = FullName(Defs[i])) =>
                /\ d.referenced_symbols[k].start_line = Defs[i].line
                /\ d.referenced_symbols[k].end_line = Defs[i].end_line

\* C24 as stated (type-directed method resolution): a call receiver.method
\* with receiver type T leaves, under the name T.method, a SymbolReference
\* with the line range of the method T itself defines, in the record being
\* built and in every stored record, also when a class defined earlier in
\* the module has a method of the same name.
C24_TypeDirected ==
    /\ OwnMethodRange(deps)
    /\ \A id \in DOMAIN endpoint_deps : OwnMethodRange(endpoint_deps[id])



(***************************************************************************)
(* Properties of the stored trace of a file (SpecTrace).                   *)
(***************************************************************************)
\* the files of the symbols recorded in d
SymbolFiles(d) == {d.referenced_symbols[k].file_path : k \in 1..Len(d.referenced_symbols)}

\* the definitions whose body calls a symbol that resolves to file f
CallersInto(f) ==
    {i \in DefIds : \E k \in 1..Len(calls[i]) :
        /\ calls[i][k].kind = "call"
        /\ _resolve_fullname_to_file(calls[i][k].fullname) # <<>>
        /\ module_to_path(_resolve_fullname_to_file(calls[i][k].fullname)[1]) = f}

\* the definitions the walk of the body of definition i descends into
DescendsInto(i) ==
    {j \in DefIds : \E k \in 1..Len(calls[i]) :
        LET n   == calls[i][k].fullname
            res == _resolve_fullname_to_file(n)
        IN  /\ calls[i][k].kind = "call"
            /\ res # <<>>
            /\ _find_func_in_tree(Tree(res[1]), n[Len(n)]) = <<j>>}

RECURSIVE FramesTo(_, _, _)
\* the least number of frames of a call chain that starts with a definition
\* of S and ends with a caller into f; n counts the frames so far, 0 if none
FramesTo(S, f, n) ==
    IF S \cap CallersInto(f) # {} THEN n
    ELSE LET more == S \cup UNION {DescendsInto(i) : i \in S}
         IN  IF more = S THEN 0 ELSE FramesTo(more, f, n + 1)

\* the stack stored for a file stays as it is
StacksKept(d, e) ==
    \A f \in DictKeys(d.call_stacks) :
        /\ DictHas(e.call_stacks, f)
        /\ DictGet(e.call_stacks, f) = DictGet(d.call_stacks, f)

\* the stacks stored in d for an entry point are shortest call chains
ShortestStacks(ep, d) ==
    \A f \in DictKeys(d.call_stacks) :
        Len(DictGet(d.call_stacks, f)) = FramesTo({HandlerDef(ep)}, f, 1)

\* C25 as stated (stored trace is first and shortest): during a trace the
\* stack stored for a file is never replaced and is stored in the step that
\* first records a symbol of a file without one; and the stack stored for a
\* file has as few frames as any call chain from the handler to a symbol of
\* that file.
C25_FirstAndShortest ==
    /\ [][tracing # NoEndpoint => StacksKept(deps, deps')]_vars
    /\ [](\A e \in 1..Len(registry) :
            (registry[e].identifier \in DOMAIN endpoint_deps /\ registry[e] = EpA) =>
                ShortestStacks(registry[e], endpoint_deps[registry[e].identifier]))

\* C25 as amended (stored trace is first): during a trace the stack stored
\* for a file is never replaced; a step that records a symbol of a file
\* leaves a stack stored for that file, and when the file had none, the
\* stack stored is the chain of calls the walk is following at that step,
\* which begins with the handler's frame.
C25_FirstTrace ==
    [][tracing # NoEndpoint =>
          /\ StacksKept(deps, deps')
          /\ Len(deps'.referenced_symbols) > Len(deps.referenced_symbols) =>
                LET f == deps'.referenced_symbols[Len(deps'.referenced_symbols)].file_path
                    s == stack[Len(stack)].call_stack
                IN  /\ DictHas(deps'.call_stacks, f)
                    /\ ~DictHas(deps.call_stacks, f) => DictGet(deps'.call_stacks, f) = s
                    /\ s[1].function_name = <<EndpointOf(tracing).name>>
                    /\ s[1].file_path = EndpointOf(tracing).file_path
                    /\ Len(s) = Len(stack)]_vars

\* a record is stored whose stack for lib/util.py has two frames, the file
\* having been reached first through A.run and later from the handler itself
C25_Witness ==
    /\ "GET /a" \in DOMAIN endpoint_deps
    /\ DictHas(endpoint_deps["GET /a"].call_stacks, LibUtil)
    /\ Len(DictGet(endpoint_deps["GET /a"].call_stacks, LibUtil)) = 2
    /\ calls[1] = <<CallOf(3), CallOf(5)>>



(***************************************************************************)
(* Properties of concurrent runs on one cache file (SpecConcurrent).       *)
(***************************************************************************)
\* the identifiers of the entries of a cache file
FileIds(file) == IF file.parses THEN {file.entries[k].id : k \in 1..Len(file.entries)} ELSE {}

\* C27 as stated (no lost cache updates): when both processes have left
\* analyze_endpoints, whatever the order of their load, trace and save
\* steps, the cache file holds an entry for every identifier that the first
\* process saved (last_saved) and for every identifier the peer saved.
C27_NoLostUpdate ==
    (apc = "done" /\ peer_pc \in {"saved", "returned"}) =>
        /\ DOMAIN last_saved \subseteq FileIds(cache_file)
        /\ peer_pc = "saved" => DOMAIN peer_deps \subseteq FileIds(cache_file)



(***************************************************************************)
(* Properties of analyze_endpoint on any registry (SpecEntry).             *)
(***************************************************************************)
\* no definition of the analyzed trees lies in the handler's file under the
\* handler's name
Unlocatable(ep) ==
    ~\E i \in DefIds : module_to_path(Defs[i].module) = ep.file_path /\ Defs[i].name = ep.name

\* the handler location as the registry gives it
GivenEnd(ep) ==
    IF ep.end_line_number # 0 THEN ep.end_line_number ELSE ep.line_number + HandlerEstimate

C30_EveryEndpointHasRecord ==
    apc = "done" =>
        \A k \in 1..Len(registry) : registry[k].identifier \in DOMAIN endpoint_deps

====
